---- MODULE Spec2Model ----
(***************************************************************************)
(* helix-log: the exception-safe logging pipeline of src/log.js            *)
(* (LoggerBase, FormattedLoggerBase, MemLogger, MultiLogger,               *)
(* InterfaceBase, SimpleInterface and __handleLoggingExceptions), run on   *)
(* the node.js event loop: synchronous calls, the microtask queue of       *)
(* promise continuations and the setImmediate queue.                       *)
(***************************************************************************)
EXTENDS Integers, Sequences, FiniteSets, TLC

VARIABLES
  loggers,     \* logger id -> its options (level, filter, defaultFields, formatter, sink)
  children,    \* MultiLogger.loggers of "root": the child ids in Map insertion order
  iface,       \* the SimpleInterface: logger, level, filter, defaultFields
  buf,         \* MemLogger.buf of every sink: the payloads written, in order
  micro,       \* pending promise continuations (the catch blocks of rejected pipelines)
  immediates,  \* pending setImmediate callbacks (the deferred reports)
  inflight,    \* CoralogixLogger._logImpl calls that have not settled yet
  events,      \* history of what the pipeline did, in order
  tick,        \* number of the current macrotask
  calls,       \* number of entry-point calls made by user code
  thrown,      \* a pipeline failure reached the caller of log()
  callErrors,  \* Interface calls rejected synchronously for a malformed fields argument
  unhandled    \* promise rejections that left the Dispatch wrapper unhandled

vars == <<loggers, children, iface, buf, micro, immediates, inflight, events, tick,
          calls, thrown, callErrors, unhandled>>

----------------------------------------------------------------------------
(* Bounds *)

MaxCalls == 2
MaxGateCalls == 1
MaxAsyncCalls == 1
MaxSendFailures == 4
MaxIfaceCalls == 2
MaxDerives == 1
MaxSnapCalls == 2
MaxFlushCalls == 2
MaxNormalizeCalls == 2
MaxNowCalls == 2
MaxRecordings == 2
MaxFormatCalls == 2
MaxGlobalCalls == 2
MaxWinstonCalls == 2
MaxRecordLogs == 1

----------------------------------------------------------------------------
(* Messages are plain objects: functions from field names to values. *)

EmptyFields == <<>>

HasKey(m, k) == k \in DOMAIN m

\* { ...d, ...f }
Overlay(d, f) ==
  [k \in (DOMAIN d) \cup (DOMAIN f) |-> IF k \in DOMAIN f THEN f[k] ELSE d[k]]

\* const { k, ...rest } = m
Without(m, k) == [y \in (DOMAIN m) \ {k} |-> m[y]]

errorMsg == "Encountered exception while logging!"

LevelNames == {"fatal", "error", "warn", "info", "verbose", "debug", "trace", "silly"}

loglevelMap ==
  [fatal |-> 0, error |-> 1, warn |-> 2, info |-> 3,
   verbose |-> 4, debug |-> 5, trace |-> 6, silly |-> 7]

\* numericLogLevel throws for a name that is not in the map
validLogLevel(name) == name \in DOMAIN loglevelMap

\* A map of ranks with two neighbours exchanged
numericLogLevelSwapped(name) ==
  [fatal |-> 0, error |-> 1, warn |-> 3, info |-> 2,
   verbose |-> 4, debug |-> 5, trace |-> 6, silly |-> 7][name]

numericLogLevel(name) == loglevelMap[name]

toUpperCase ==
  [fatal |-> "FATAL", error |-> "ERROR", warn |-> "WARN", info |-> "INFO",
   verbose |-> "VERBOSE", debug |-> "DEBUG", trace |-> "TRACE", silly |-> "SILLY"]

----------------------------------------------------------------------------
(* Results of calling user-supplied code: a value, undefined, or a throw. *)

Value(v) == [tag |-> "value", v |-> v]
Undefined == [tag |-> "undefined"]
Throw(e) == [tag |-> "throw", e |-> e]

\* logger.filter: ferrum's identity, the filters of the test suite, and a
\* filter that is not callable (logger.filter = 42).
applyFilter(kind, m) ==
  CASE kind = "identity" -> Value(m)
    [] kind = "keep"     -> IF HasKey(m, "keep") THEN Value(Without(m, "keep")) ELSE Undefined
    [] kind = "borg"     -> Value(Overlay(m, [borg |-> "33"]))
    [] kind = "broken"   -> Throw("TypeError: filter is not a function")
    [] kind \in {"adder", "remover"} -> Value(m)

\* messageFormatSimple: `[LEVEL] message rest`; spreading an absent message
\* next to other fields throws.
messageFormatSimple(fields) ==
  LET rest == Without(Without(Without(fields, "level"), "timestamp"), "message")
  IN IF rest # EmptyFields /\ ~HasKey(fields, "message")
     THEN Throw("TypeError: message is not iterable")
     ELSE Value([fmt |-> "simple",
                 prefix |-> toUpperCase[fields.level],
                 text |-> IF HasKey(fields, "message") THEN fields.message ELSE <<>>,
                 rest |-> rest])

applyFormatter(kind, merged) ==
  CASE kind = "identity" -> Value(merged)
    [] kind = "simple"   -> messageFormatSimple(merged)
    [] kind = "broken"   -> Throw("TypeError: formatter is not a function")

----------------------------------------------------------------------------
(* The loggers of the model.  "root" is a MultiLogger, "memA" and "memB"   *)
(* are MemLoggers (FormattedLoggerBase), "cora" is a CoralogixLogger, "bad" *)
(* is a child that is no Logger at all (null) and "thrower" a Logger whose  *)
(* log() throws.  buf["cora"] is what the Coralogix server has received.    *)

LoggerIds == {"root", "memA", "memB", "cora", "bad", "thrower"}
Sinks == {"memA", "memB", "cora"}

kindOf ==
  [root |-> "multi", memA |-> "mem", memB |-> "mem", cora |-> "coralogix",
   bad |-> "null", thrower |-> "thrower",
   recA |-> "mem", recB |-> "mem", recC |-> "mem"]

\* new LoggerBase({ level = 'silly', defaultFields = {}, filter = identity })
\* new FormattedLoggerBase({ formatter = identity })
DefaultOpts ==
  [level |-> "silly", filter |-> "identity", defaultFields |-> EmptyFields,
   formatter |-> "identity", sink |-> "ok"]

\* What runs synchronously inside one entry-point call: the sinks, the
\* continuations queued so far, the history, and the exception in flight.
\* ctx names the user call the work belongs to, how many reports deep it is,
\* and whose wrapper is running (a Logger's, the fan-out's, the Interface's).
Ev(type, logger, ctx, m, out, arg2, info) ==
  [type |-> type, logger |-> logger, call |-> ctx.call, depth |-> ctx.depth,
   tick |-> ctx.tick, ftick |-> ctx.ftick, by |-> ctx.by, m |-> m, out |-> out,
   arg2 |-> arg2,
   info |-> info, given |-> EmptyFields,
   opts |-> IF logger \in DOMAIN loggers THEN loggers[logger] ELSE EmptyFields]

Record(st, e) == [st EXCEPT !.events = Append(@, e)]

Raise(st, e) == [st EXCEPT !.exc = e]

\* fields.message is present and eq(fields.message, [errorMsg])
isDiagnostic(fields) == HasKey(fields, "message") /\ fields.message = <<errorMsg>>

\* A wrapper that runs code() without catching: the failure stays in flight
handleLoggingExceptionsUncaught(fields, logger, st, ctx) == st

\* __handleLoggingExceptions, the part that runs inside the call: `st` is the
\* state after code() ran up to its end or its throw.  The async wrapper
\* turns a throw into a rejected promise, whose catch block is a microtask.
handleLoggingExceptions(fields, logger, st, ctx) ==
  IF st.exc = "none" THEN st
  ELSE [st EXCEPT
         !.exc = "none",
         !.micro = Append(@, [fields |-> fields, logger |-> logger,
                              exception |-> st.exc, call |-> ctx.call,
                              depth |-> ctx.depth, ftick |-> ctx.tick]),
         !.events = Append(@, Ev("fail", logger, ctx, fields, EmptyFields, EmptyFields, st.exc))]

\* A sink that puts the newest payload first
MemLogger_logImplUnshift(st, l, payload, fields) ==
  IF loggers[l].sink = "broken"
  THEN Raise(st, "Error: write failed")
  ELSE [st EXCEPT !.buf[l] = <<payload>> \o @]

\* MemLogger._logImpl(payload): this.buf.push(payload).  The write of a
\* sink can fail (a stream that throws, a request that is rejected).
MemLogger_logImpl(st, l, payload, fields) ==
  IF loggers[l].sink = "broken"
  THEN Raise(st, "Error: write failed")
  ELSE [st EXCEPT !.buf[l] = Append(@, payload)]

\* CoralogixLogger._logImpl(payload, fields), up to its first await: the
\* request of the first attempt is on its way and the promise is pending.
Coralogix_logImpl(st, l, payload, fields, fields_, mergedFields, ctx) ==
  [st EXCEPT !.inflight =
     Append(@, [logger |-> l, payload |-> payload, fields |-> fields, m |-> fields_,
                given |-> mergedFields, attempt |-> 1, ctx |-> ctx])]

\* A test that lets an undefined filter result through
isUndefinedNever(f) == FALSE

\* fields !== undefined, negated
isUndefined(f) == f.tag = "undefined"

\* A merge in which the defaults win
mergeDefaultsOverMessage(defaultFields, fields) == Overlay(fields, defaultFields)

\* { ...this.defaultFields, ...fields }
mergeDefaults(defaultFields, fields) == Overlay(defaultFields, fields)

RECURSIVE loggerLog(_, _, _, _)
RECURSIVE MultiLogger_logImpl(_, _, _, _, _)
RECURSIVE MultiLogger_logImplUnshielded(_, _, _, _, _)
RECURSIVE MultiLogger_logImplSnapshot(_, _, _, _, _)

\* Map.prototype.set(name, sub) / delete(name) called by a filter while the
\* fan-out is running: "adder" puts memB into the mapping of root, "remover"
\* takes it out
filterEffect(st, kind) ==
  CASE kind = "adder" ->
         IF \E i \in 1 .. Len(st.children) : st.children[i] = "memB" THEN st
         ELSE [st EXCEPT !.children = Append(@, "memB")]
    [] kind = "remover" ->
         [st EXCEPT !.children = SelectSeq(@, LAMBDA c : c # "memB")]
    [] OTHER -> st

\* The iterator of a Map after a callback: the entries still to visit that
\* are still in the Map, then the entries the callback added
restOfMap(rest, before, after) ==
  SelectSeq(rest, LAMBDA c : \E i \in 1 .. Len(after) : after[i] = c)
    \o SelectSeq(after, LAMBDA c : \A i \in 1 .. Len(before) : before[i] # c)

\* A fan-out that calls sub.log(fields) directly inside each()
MultiLogger_logImplUnshielded(st, l, fields, kids, ctx) ==
  IF kids = <<>> THEN st
  ELSE LET sub == Head(kids)
           st0 == Record(st, Ev("recv", sub, ctx, fields, EmptyFields, EmptyFields, l))
           st1 == loggerLog(st0, sub, fields, ctx)
       IN IF st1.exc # "none" THEN st1
          ELSE MultiLogger_logImplUnshielded(st1, l, fields,
                                             restOfMap(Tail(kids), st.children, st1.children), ctx)

\* An iteration over the entries the mapping had when the call started
MultiLogger_logImplSnapshot(st, l, fields, kids, ctx) ==
  IF kids = <<>> THEN st
  ELSE LET sub == Head(kids)
           st0 == Record(st, Ev("recv", sub, ctx, fields, EmptyFields, EmptyFields, l))
           st1 == handleLoggingExceptions(fields, sub, loggerLog(st0, sub, fields, ctx),
                                          [ctx EXCEPT !.by = "multi"])
       IN IF st1.exc # "none" THEN st1
          ELSE MultiLogger_logImplSnapshot(st1, l, fields, Tail(kids), ctx)

\* MultiLogger._logImpl(fields): each child's log() runs inside its own
\* __handleLoggingExceptions; an exception leaving the callback ends each().
\* each() walks the iterator of the Map, which is live: `kids` are the
\* entries still to visit.
MultiLogger_logImpl(st, l, fields, kids, ctx) ==
  IF kids = <<>> THEN st
  ELSE LET sub == Head(kids)
           st0 == Record(st, Ev("recv", sub, ctx, fields, EmptyFields, EmptyFields, l))
           st1 == handleLoggingExceptions(fields, sub, loggerLog(st0, sub, fields, ctx),
                                          [ctx EXCEPT !.by = "multi"])
       IN IF st1.exc # "none" THEN st1
          ELSE MultiLogger_logImpl(st1, l, fields,
                                   restOfMap(Tail(kids), st.children, st1.children), ctx)

\* The async function given to __handleLoggingExceptions by
\* LoggerBase.__logWithFormatter: filter, level gate, defaultFields merge,
\* formatter, sink-specific write.  Reading `.level` of undefined throws.
pipelineCode(st_, l, fields_, ctx) ==
  LET o == loggers[l]
      f == applyFilter(o.filter, fields_)
      st == filterEffect(st_, o.filter)
  IN CASE f.tag = "throw" -> Raise(st, f.e)
       [] f.tag # "throw" /\ isUndefined(f) ->
            Record(st, Ev("drop", l, ctx, fields_, EmptyFields, EmptyFields, "filter"))
       [] f.tag = "undefined" /\ ~isUndefined(f) ->
            Raise(st, "TypeError: Cannot read properties of undefined")
       [] OTHER ->
            LET fields == f.v IN
            IF ~HasKey(fields, "level") \/ ~validLogLevel(fields.level) \/ ~validLogLevel(o.level)
            THEN Raise(st, "Error: Not a valid log level")
            ELSE IF ~(numericLogLevel(fields.level) <= numericLogLevel(o.level))
            THEN Record(st, Ev("drop", l, ctx, fields_, EmptyFields, EmptyFields, "level"))
            ELSE LET mergedFields == mergeDefaults(o.defaultFields, fields) IN
                 IF kindOf[l] = "multi"
                 THEN LET st1 == MultiLogger_logImpl(
                                   Record(st, [Ev("fanout", l, ctx, fields_, mergedFields,
                                                  st.children, "plain")
                                                 EXCEPT !.given = mergedFields]),
                                   l, mergedFields, st.children, ctx)
                      IN IF st1.exc # "none" THEN st1
                         ELSE Record(st1, Ev("fanned", l, ctx, fields_, mergedFields,
                                             st1.children, "plain"))
                 ELSE LET p == applyFormatter(o.formatter, mergedFields) IN
                      IF p.tag = "throw" THEN Raise(st, p.e)
                      ELSE IF kindOf[l] = "coralogix"
                      THEN Coralogix_logImpl(st, l, p.v, fields, fields_, mergedFields, ctx)
                      ELSE LET st1 == MemLogger_logImpl(st, l, p.v, fields) IN
                           IF st1.exc # "none" THEN st1
                           ELSE Record(st1, [Ev("write", l, ctx, fields_, p.v, fields, "formatted")
                                               EXCEPT !.given = mergedFields])

\* LoggerBase.__logWithFormatter / log
logWithFormatter(st, l, fields_, ctx) ==
  handleLoggingExceptions(fields_, l, pipelineCode(st, l, fields_, ctx), ctx)

\* logger.log(fields) for any value found where a Logger is expected
loggerLog(st, l, fields_, ctx) ==
  CASE kindOf[l] = "null"    -> Raise(st, "TypeError: Cannot read properties of null")
    [] kindOf[l] = "thrower" -> Raise(st, "Error: thrown by log()")
    [] OTHER                 -> logWithFormatter(st, l, fields_, ctx)

\* A report whose text differs from the text the catch block compares with
diagnosticRecordOtherText(h) ==
  [level |-> "error", message |-> <<"Encountered exception while logging">>,
   application |-> "infrastructure", subsystem |-> "helix-log-error-handling",
   exception |-> h.exception, logger |-> h.logger]

\* The record logged by the catch block of __handleLoggingExceptions
diagnosticRecord(h) ==
  [level |-> "error", message |-> <<errorMsg>>, application |-> "infrastructure",
   subsystem |-> "helix-log-error-handling", exception |-> h.exception,
   logger |-> h.logger]

\* A catch block that reports every failure
reportWantedAlways(fields) == TRUE

\* if (!fields.message || !eq(fields.message, [errorMsg]))
reportWanted(fields) == ~HasKey(fields, "message") \/ fields.message # <<errorMsg>>

\* logger.log({ level: 'error', message: [errorMsg], ... }) at the end of the
\* catch block, in macrotask t.  A throw of that call rejects the promise of
\* the async wrapper, which nothing awaits.
emitReport(st, h, t) ==
  LET ctx == [call |-> h.call, depth |-> h.depth + 1, tick |-> t, ftick |-> h.ftick,
              by |-> "logger"]
      diag == diagnosticRecord(h)
      st0 == Record(st, Ev("diag", h.logger, ctx, diag, EmptyFields, h.fields, h.exception))
      st1 == loggerLog(st0, h.logger, diag, ctx)
  IN IF st1.exc = "none" THEN st1
     ELSE [Record(st1, Ev("unhandled", h.logger, ctx, diag, EmptyFields, h.fields, st1.exc))
             EXCEPT !.exc = "none", !.unhandled = @ + 1]

\* A catch block that logs the report without waiting
deferReportNot(st, h, t) == emitReport(st, h, t)

\* await new Promise((res) => { setImmediate(res); })
deferReport(st, h, t) == [st EXCEPT !.immediates = Append(@, h)]

\* The catch block up to its await, run as a microtask in macrotask t
catchBlock(st, h, t) ==
  IF reportWanted(h.fields)
  THEN deferReport(st, h, t)
  ELSE Record(st, Ev("suppress", h.logger,
                     [call |-> h.call, depth |-> h.depth, tick |-> t, ftick |-> h.ftick,
                      by |-> "logger"],
                     h.fields, EmptyFields, EmptyFields, h.exception))

----------------------------------------------------------------------------
(* The Interface layer *)

\* Values of the field `message`: an Array is the sequence of its elements,
\* any other value v is the sequence <<NotArray, v>>; the string "undefined"
\* stands for the value undefined.
NotArray == "(not an Array)"

\* type(r.message) === Array
isArray(v) == v = <<>> \/ Head(v) # NotArray

\* A normalization that leaves the message as it was given
makeLogMessageNoWrap(fields) == Overlay([level |-> "info", timestamp |-> "now"], fields)

\* makeLogMessage: { level: 'info', timestamp: new BigDate(), ...fields },
\* then a message that is not an Array is wrapped: r.message = [r.message]
makeLogMessage(fields) ==
  LET r == Overlay([level |-> "info", timestamp |-> "now"], fields)
  IN IF HasKey(r, "message")
     THEN [r EXCEPT !.message = IF isArray(@) THEN @ ELSE Tail(@)]
     ELSE r

\* ferrum: list(intersperse(msg, ' '))
RECURSIVE intersperse(_, _)
intersperse(msg, sep) ==
  IF Len(msg) <= 1 THEN msg
  ELSE <<Head(msg), sep>> \o intersperse(Tail(msg), sep)

\* An Interface that forwards every message, whatever its filter and level
InterfaceBase_logImplNoGate(st, fields_, ctx) ==
  LET v == Overlay(iface.defaultFields, makeLogMessage(fields_))
      code == loggerLog(Record(st, Ev("forward", iface.logger, ctx, fields_, v,
                                      EmptyFields, "iface")),
                        iface.logger, v, ctx)
  IN handleLoggingExceptions(fields_, iface.logger, code, [ctx EXCEPT !.by = "iface"])

\* InterfaceBase._logImpl(fields_).  The events of the Interface hold in
\* arg2 the record its filter was called with.
InterfaceBase_logImpl(st, fields_, ctx) ==
  LET given == Overlay(iface.defaultFields, makeLogMessage(fields_))
      f == applyFilter(iface.filter, given)
      code ==
        CASE f.tag = "throw" -> Raise(st, f.e)
          [] f.tag = "undefined" ->
               Record(st, Ev("drop", "iface", ctx, fields_, EmptyFields, given, "filter"))
          [] OTHER ->
               IF ~HasKey(f.v, "level") \/ ~validLogLevel(f.v.level) \/ ~validLogLevel(iface.level)
               THEN Raise(st, "Error: Not a valid log level")
               ELSE IF ~(numericLogLevel(f.v.level) <= numericLogLevel(iface.level))
               THEN Record(st, Ev("drop", "iface", ctx, fields_, EmptyFields, given, "level"))
               ELSE loggerLog(Record(st, Ev("forward", iface.logger, ctx, fields_, f.v,
                                            given, "iface")),
                              iface.logger, f.v, ctx)
  IN handleLoggingExceptions(fields_, iface.logger, code, [ctx EXCEPT !.by = "iface"])

\* An entry point whose positional arguments win over the trailing fields
SimpleInterface_logImplArgsWin(st, level, msg, last, ctx) ==
  IF ~last.obj
  THEN Raise(st, "Error: Data given as the last argument must be a plain Object")
  ELSE InterfaceBase_logImpl(
         st, Overlay(last.v, [message |-> intersperse(msg, " "), level |-> level]), ctx)

\* An entry point that takes anything but a plain Object for no fields
SimpleInterface_logImplLenient(st, level, msg, last, ctx) ==
  InterfaceBase_logImpl(
    st, Overlay([message |-> intersperse(msg, " "), level |-> level],
                IF last.obj THEN last.v ELSE EmptyFields), ctx)

\* SimpleInterface._logImpl(level, ...msg): the last argument is popped as the
\* fields; `last` is [obj |-> TRUE, v |-> fields] for a plain Object and
\* [obj |-> FALSE] for anything else, which throws to the caller.
SimpleInterface_logImpl(st, level, msg, last, ctx) ==
  IF ~last.obj
  THEN Raise(st, "Error: Data given as the last argument must be a plain Object")
  ELSE InterfaceBase_logImpl(
         st, Overlay([message |-> intersperse(msg, " "), level |-> level], last.v), ctx)

----------------------------------------------------------------------------
(* Construction *)

\* Options given to new MemLogger(opts) in the behaviours of Spec: the
\* defaults, and one broken stage each
MemOpts ==
  { DefaultOpts,
    [DefaultOpts EXCEPT !.filter = "broken"],
    [DefaultOpts EXCEPT !.formatter = "broken"],
    [DefaultOpts EXCEPT !.sink = "broken"] }

\* new MultiLogger(loggers)
ChildMaps == { <<"memA", "memB">>, <<"bad", "memA", "memB">>, <<"memA", "thrower", "memB">> }

\* new SimpleInterface({ logger, filter })
IfaceOpts ==
  { [logger |-> "memA", level |-> "silly", filter |-> fl, defaultFields |-> EmptyFields]
      : fl \in {"identity", "broken"} }

\* Messages user code passes to log()
Messages ==
  { [level |-> "info", message |-> <<"Hello">>],
    [level |-> "foo", message |-> <<"Hello">>],
    [level |-> "error", message |-> <<errorMsg>>],
    [level |-> "warn", application |-> "app"] }

LogTargets == {"root", "memA"}

\* Entry points of the SimpleInterface used by user code, and their arguments
IfaceLevels == {"debug"}
IfaceArgs == { <<"Ford", "Prefect">> }
IfaceLast == { [obj |-> TRUE, v |-> EmptyFields], [obj |-> FALSE] }

InitQueues ==
  /\ buf = [l \in Sinks |-> <<>>]
  /\ micro = <<>>
  /\ immediates = <<>>
  /\ inflight = <<>>
  /\ events = <<>>
  /\ tick = 0
  /\ calls = 0
  /\ thrown = FALSE
  /\ callErrors = 0
  /\ unhandled = 0

Init ==
  /\ \E oa \in MemOpts :
       loggers = [l \in {"root", "memA", "memB"} |-> IF l = "memA" THEN oa ELSE DefaultOpts]
  /\ children \in ChildMaps
  /\ iface \in IfaceOpts
  /\ iface.filter = "broken" => (loggers["memA"] = DefaultOpts /\ children = <<"memA", "memB">>)
  /\ InitQueues

----------------------------------------------------------------------------
(* Steps of the program and of the event loop *)

St ==
  [buf |-> buf, micro |-> micro, immediates |-> immediates, inflight |-> inflight,
   events |-> events, children |-> children,
   exc |-> "none", unhandled |-> unhandled]

Commit(st) ==
  /\ buf' = st.buf
  /\ micro' = st.micro
  /\ immediates' = st.immediates
  /\ inflight' = st.inflight
  /\ events' = st.events
  /\ children' = st.children
  /\ unhandled' = st.unhandled

UserCtx == [call |-> calls + 1, depth |-> 0, tick |-> tick, ftick |-> tick, by |-> "logger"]

\* User code calls logger.log(m)
Log(l, m) ==
  LET st0 == Record(St, Ev("call", l, UserCtx, m, EmptyFields, EmptyFields, "log"))
      st1 == loggerLog(st0, l, m, UserCtx)
  IN /\ Commit([st1 EXCEPT !.exc = "none"])
     /\ thrown' = (thrown \/ st1.exc # "none")
     /\ calls' = calls + 1
     /\ UNCHANGED <<loggers, iface, tick, callErrors>>

\* User code calls an entry point of the SimpleInterface: iff.info(...msg)
\* is _logImpl('info', ...msg, {}), iff.infoFields(...msg) is _logImpl('info', ...msg)
IfaceCall(level, msg, last) ==
  LET fields_ == IF last.obj THEN last.v ELSE EmptyFields
      st0 == Record(St, Ev("call", "iface", UserCtx,
                           Overlay([message |-> intersperse(msg, " "), level |-> level], fields_),
                           fields_, [message |-> msg, level |-> level],
                           IF last.obj THEN "iface" ELSE "malformed"))
      st1 == SimpleInterface_logImpl(st0, level, msg, last, UserCtx)
  IN /\ Commit([st1 EXCEPT !.exc = "none"])
     /\ thrown' = (thrown \/ (st1.exc # "none" /\ last.obj))
     /\ callErrors' = callErrors + (IF st1.exc # "none" /\ ~last.obj THEN 1 ELSE 0)
     /\ calls' = calls + 1
     /\ UNCHANGED <<loggers, iface, tick>>

\* The event loop runs the oldest promise continuation
RunMicrotask ==
  /\ micro # <<>>
  /\ Commit(catchBlock([St EXCEPT !.micro = Tail(@)], Head(micro), tick))
  /\ UNCHANGED <<loggers, iface, tick, calls, thrown, callErrors>>

\* With no continuation left, the event loop runs the oldest setImmediate
\* callback: the catch block resumes and logs the report
RunImmediate ==
  /\ micro = <<>>
  /\ immediates # <<>>
  /\ Commit(emitReport([St EXCEPT !.immediates = Tail(@)], Head(immediates), tick + 1))
  /\ tick' = tick + 1
  /\ UNCHANGED <<loggers, iface, calls, thrown, callErrors>>

UserLog == calls < MaxCalls /\ \E l \in LogTargets, m \in Messages : Log(l, m)

UserIface ==
  calls < MaxCalls /\ \E lv \in IfaceLevels, msg \in IfaceArgs, last \in IfaceLast :
                        IfaceCall(lv, msg, last)

Next == UserLog \/ UserIface \/ RunMicrotask \/ RunImmediate

Spec == Init /\ [][Next]_vars

----------------------------------------------------------------------------
(* An Interface in front of one Logger, each with its own filter and level *)

IfaceFullOpts ==
  { [logger |-> "memA", level |-> lv, filter |-> fl, defaultFields |-> df]
      : lv \in {"silly", "info"}, fl \in {"identity", "keep"},
        df \in {EmptyFields, [foo |-> "42"]} }

IfaceTargetOpts ==
  { [DefaultOpts EXCEPT !.level = lv, !.filter = fl]
      : lv \in {"silly", "error"}, fl \in {"identity", "keep"} }

\* iff.warn('Fnord'); iff.sillyFields('Foo', { keep: true });
\* iff.sillyFields('Foo', { message: ['Hi'], level: 'fatal' }); iff.sillyFields();
\* iff.sillyFields('just', 'text')
IfaceFullCalls ==
  { [msg |-> <<"Fnord">>, last |-> [obj |-> TRUE, v |-> EmptyFields]],
    [msg |-> <<"Foo", "Bar">>, last |-> [obj |-> TRUE, v |-> [keep |-> "yes"]]],
    [msg |-> <<"Foo">>, last |-> [obj |-> TRUE, v |-> [message |-> <<"Hi">>, level |-> "fatal"]]],
    [msg |-> <<"Foo">>, last |-> [obj |-> TRUE, v |-> [keep |-> "yes", level |-> "error"]]],
    [msg |-> <<"Foo">>, last |-> [obj |-> TRUE, v |-> [level |-> "foo"]]],
    [msg |-> <<>>, last |-> [obj |-> FALSE]],
    [msg |-> <<"just">>, last |-> [obj |-> FALSE]] }

IfaceFullLevels == {"warn", "silly"}

InitIface ==
  /\ \E o \in IfaceTargetOpts :
       loggers = [l \in {"root", "memA", "memB"} |-> IF l = "memA" THEN o ELSE DefaultOpts]
  /\ children = <<"memA", "memB">>
  /\ iface \in IfaceFullOpts
  /\ InitQueues

UserIfaceFull ==
  calls < MaxIfaceCalls /\ \E lv \in IfaceFullLevels, c \in IfaceFullCalls :
                             IfaceCall(lv, c.msg, c.last)

NextIface == UserIfaceFull \/ RunMicrotask \/ RunImmediate

SpecIface == InitIface /\ [][NextIface]_vars

----------------------------------------------------------------------------
(* The global entry points log, info, warn, ...: functions that call       *)
(* rootInterface = new SimpleInterface(), whose logger is the root logger. *)

\* The level each global function gives to __globalLogImpl:
\* const log = (...msg) => __globalLogImpl('log', ...msg, {});
\* const info = (...msg) => __globalLogImpl('info', ...msg, {}); ...
globalLevel == [log |-> "log", info |-> "info", warn |-> "warn"]

\* __globalLogImpl(lvl, ...msg): rootInterface._logImpl inside try/catch;
\* console.error when it threw or when the root logger has no children
globalLogImpl(st, lvl, msg, last, ctx) ==
  LET st1 == SimpleInterface_logImpl(st, lvl, msg, last, ctx)
      st2 == IF st1.exc # "none"
             THEN Record(st1, Ev("console.error", "none", ctx, msg, EmptyFields, EmptyFields,
                                 "Utter failure logging because"))
             ELSE st1
      logFailure == st1.exc # "none" \/ st1.children = <<>>
  IN [(IF logFailure
       THEN Record(st2, Ev("console.error", "none", ctx, msg, EmptyFields, EmptyFields,
                           "Utter failure logging message"))
       ELSE st2) EXCEPT !.exc = "none"]

\* User code calls log(...msg), info(...msg) or warn(...msg)
GlobalCall(name, msg) ==
  LET lvl == globalLevel[name]
      st0 == Record(St, Ev("call", "iface", UserCtx,
                           [message |-> intersperse(msg, " "), level |-> lvl],
                           EmptyFields, [message |-> msg, level |-> lvl], "global." \o name))
  IN /\ Commit(globalLogImpl(st0, lvl, msg, [obj |-> TRUE, v |-> EmptyFields], UserCtx))
     /\ calls' = calls + 1
     /\ UNCHANGED <<loggers, iface, tick, thrown, callErrors>>

GlobalArgs == { <<"Hello">>, <<"Hello", "World">>, <<>> }

UserGlobal ==
  calls < MaxGlobalCalls /\ \E n \in DOMAIN globalLevel, msg \in GlobalArgs : GlobalCall(n, msg)

\* User code calls new SimpleInterface().log(...msg)
UserSimpleLog ==
  calls < MaxGlobalCalls /\ \E msg \in GlobalArgs :
                              IfaceCall("info", msg, [obj |-> TRUE, v |-> EmptyFields])

InitGlobal ==
  /\ \E lv \in {"silly", "warn"} :
       loggers = [l \in {"root", "memA", "memB"} |->
                    IF l = "memA" THEN [DefaultOpts EXCEPT !.level = lv] ELSE DefaultOpts]
  /\ children \in { <<"memA">>, <<"memA", "memB">>, <<>> }
  /\ iface = [logger |-> "root", level |-> "silly", filter |-> "identity",
              defaultFields |-> EmptyFields]
  /\ InitQueues

NextGlobal == UserGlobal \/ UserSimpleLog \/ RunMicrotask \/ RunImmediate

SpecGlobal == InitGlobal /\ [][NextGlobal]_vars

----------------------------------------------------------------------------
(* WinstonTransportInterface: winston calls log(winstonMsg, callback) for   *)
(* every message and waits for callback() before it gives the next one.    *)
(* `iface` holds the logger, filter and defaultFields of the transport.     *)
(* A "winston" event is a call of log, "await" the point where log waits    *)
(* for this.logger.log(...), "callback" a call of callback() and "logged"   *)
(* the emission of the event 'logged'.                                      *)

EventsOf(c, type) == { j \in 1..Len(events) : events[j].type = type /\ events[j].call = c }

\* The calls of log that wait at `await this.logger.log(...)`
PendingAwaits ==
  { i \in 1..Len(events) : events[i].type = "await" /\ EventsOf(events[i].call, "callback") = {} }

\* setImmediate(() => this.emit('logged', winstonMsg)) not yet run
PendingEmits ==
  { i \in 1..Len(events) : events[i].type = "winston" /\ EventsOf(events[i].call, "logged") = {} }

\* WinstonTransportInterface.log(winstonMsg, callback), up to its await
WinstonTransportInterface_log(st, winstonMsg, ctx) ==
  LET st0 == Record(st, Ev("winston", "iface", ctx, winstonMsg, EmptyFields, EmptyFields,
                           "winston"))
      f == applyFilter(iface.filter, makeLogMessage(winstonMsg))
      code ==
        CASE f.tag = "throw" -> Raise(st0, f.e)
          [] f.tag = "undefined" ->
               Record(st0, Ev("drop", "iface", ctx, winstonMsg, EmptyFields,
                              makeLogMessage(winstonMsg), "filter"))
          [] OTHER ->
               LET out == Overlay(iface.defaultFields, f.v)
                   st1 == loggerLog(Record(st0, Ev("forward", iface.logger, ctx, winstonMsg, out,
                                                   makeLogMessage(winstonMsg), "winston")),
                                    iface.logger, out, ctx)
               IN IF st1.exc # "none"
                  THEN Record(st1, Ev("callback", "iface", ctx, winstonMsg, EmptyFields,
                                      EmptyFields, "finally, after a throw"))
                  ELSE Record(st1, Ev("await", "iface", ctx, winstonMsg, EmptyFields,
                                      EmptyFields, "winston"))
  IN handleLoggingExceptions(winstonMsg, iface.logger, code, [ctx EXCEPT !.by = "iface"])

\* winston gives a message to the transport
WinstonLog(winstonMsg) ==
  /\ Commit(WinstonTransportInterface_log(St, winstonMsg, UserCtx))
  /\ calls' = calls + 1
  /\ UNCHANGED <<loggers, iface, tick, thrown, callErrors>>

\* log resumes after `await this.logger.log(...)`: finally { callback(); }
WinstonResumes(i) ==
  /\ i \in PendingAwaits
  /\ Commit(Record(St, Ev("callback", "iface",
                          [UserCtx EXCEPT !.call = events[i].call], events[i].m,
                          EmptyFields, EmptyFields, "finally")))
  /\ UNCHANGED <<loggers, iface, tick, calls, thrown, callErrors>>

\* The setImmediate callback of log runs: this.emit('logged', winstonMsg)
EmitLogged(i) ==
  /\ i \in PendingEmits
  /\ micro = <<>> /\ PendingAwaits = {}
  /\ Commit(Record(St, Ev("logged", "iface",
                          [UserCtx EXCEPT !.call = events[i].call], events[i].m,
                          EmptyFields, EmptyFields, "emit")))
  /\ UNCHANGED <<loggers, iface, tick, calls, thrown, callErrors>>

\* win.error('Hello World'); win.warn('Horrible!', { field: 'green' })
WinstonMessages ==
  { [level |-> "error", message |-> <<NotArray, "Hello World">>],
    [level |-> "warn", message |-> <<NotArray, "Horrible!">>, keep |-> "yes"] }

WinstonOpts ==
  { [logger |-> lg, level |-> "silly", filter |-> fl, defaultFields |-> df]
      : lg \in {"memA", "bad"}, fl \in {"identity", "keep", "broken"},
        df \in {EmptyFields, [foo |-> "42"]} }

InitWinston ==
  /\ loggers = [l \in {"root", "memA", "memB"} |-> DefaultOpts]
  /\ children = <<"memA", "memB">>
  /\ iface \in WinstonOpts
  /\ InitQueues

UserWinston == calls < MaxWinstonCalls /\ \E m \in WinstonMessages : WinstonLog(m)

WinstonContinues == \E i \in PendingAwaits : WinstonResumes(i)

WinstonEmits == \E i \in PendingEmits : EmitLogged(i)

NextWinston == UserWinston \/ WinstonContinues \/ WinstonEmits \/ RunMicrotask \/ RunImmediate

SpecWinston == InitWinston /\ [][NextWinston]_vars

----------------------------------------------------------------------------
(* deriveLogger.  An object is the function of its own enumerable          *)
(* properties; `class` names its constructor.                              *)

\* const { a = dflt } = o
Prop(o, k, dflt) == IF HasKey(o, k) THEN o[k] ELSE dflt

RECURSIVE WithoutAll(_, _)
WithoutAll(o, ks) ==
  IF ks = {} THEN o
  ELSE LET k == CHOOSE x \in ks : TRUE IN WithoutAll(Without(o, k), ks \ {k})

\* LoggerBase.constructor({ level, defaultFields, filter, ...unknown })
LoggerBase_new(o) ==
  IF WithoutAll(o, {"level", "defaultFields", "filter"}) # EmptyFields
  THEN Throw("Error: Unknown named options given")
  ELSE Value([level |-> Prop(o, "level", "silly"),
              filter |-> Prop(o, "filter", "identity"),
              defaultFields |-> Prop(o, "defaultFields", EmptyFields)])

\* FormattedLoggerBase.constructor({ formatter = identity, ...opts })
FormattedLoggerBase_new(o) ==
  LET base == LoggerBase_new(Without(o, "formatter"))
  IN IF base.tag = "throw" THEN base
     ELSE Value(Overlay(base.v, [formatter |-> Prop(o, "formatter", "identity")]))

\* ConsoleLogger.constructor({ stream = console._stderr, ...rest })
ConsoleLogger_new(o) ==
  LET base == FormattedLoggerBase_new(Overlay([formatter |-> "console"], Without(o, "stream")))
  IN IF base.tag = "throw" THEN base
     ELSE Value(Overlay(base.v, [stream |-> Prop(o, "stream", "stderr")]))

\* MemLogger.constructor(opts)
MemLogger_new(o) ==
  LET base == FormattedLoggerBase_new(o)
  IN IF base.tag = "throw" THEN base ELSE Value(Overlay(base.v, [buf |-> <<>>]))

\* MultiLogger.constructor(loggers, opts = {}): called with one argument,
\* that argument is the mapping of the children
MultiLogger_new(o) ==
  LET base == LoggerBase_new(EmptyFields)
  IN Value(Overlay(base.v, [loggers |-> o]))

\* InterfaceBase.constructor({ logger, level, filter, defaultFields, ...unknown })
InterfaceBase_new(o) ==
  IF WithoutAll(o, {"logger", "level", "filter", "defaultFields"}) # EmptyFields
  THEN Throw("Error: Unknown named options given")
  ELSE Value([logger |-> Prop(o, "logger", "undefined"),
              level |-> Prop(o, "level", "silly"),
              filter |-> Prop(o, "filter", "identity"),
              defaultFields |-> Prop(o, "defaultFields", EmptyFields)])

\* new logger.constructor(o)
construct(class, o) ==
  CASE class = "SimpleInterface" -> InterfaceBase_new(o)
    [] class = "ConsoleLogger"   -> ConsoleLogger_new(o)
    [] class = "MemLogger"       -> MemLogger_new(o)
    [] class = "MultiLogger"     -> MultiLogger_new(o)

\* deriveLogger(logger, opts)
deriveLogger(logger, opts) ==
  LET optFields == Prop(opts, "defaultFields", EmptyFields)
      rest == Without(opts, "defaultFields")
      defaultFields == Overlay(logger.props.defaultFields, optFields)
  IN construct(logger.class,
               Overlay(Overlay(logger.props, [defaultFields |-> defaultFields]), rest))

\* The own properties of the objects of the model
ownProps(l) ==
  CASE l = "iface" -> iface
    [] l = "con" -> [level |-> "info", filter |-> "identity", defaultFields |-> [foo |-> "42"],
                     formatter |-> "console", stream |-> "stderr"]
    [] kindOf[l] = "mem" ->
         [level |-> loggers[l].level, filter |-> loggers[l].filter,
          defaultFields |-> loggers[l].defaultFields, formatter |-> loggers[l].formatter,
          buf |-> buf[l]]
    [] kindOf[l] = "multi" ->
         [level |-> loggers[l].level, filter |-> loggers[l].filter,
          defaultFields |-> loggers[l].defaultFields, loggers |-> children]

classOf(l) ==
  CASE l = "iface" -> "SimpleInterface"
    [] l = "con" -> "ConsoleLogger"
    [] kindOf[l] = "mem" -> "MemLogger"
    [] kindOf[l] = "multi" -> "MultiLogger"

DeriveParents == {"iface", "con", "memA", "root"}

DeriveOpts ==
  { EmptyFields,
    [defaultFields |-> [bar |-> "xyz"]],
    [defaultFields |-> [foo |-> "44", bar |-> "xyz"], level |-> "warn"],
    [level |-> "error"] }

Derives == Cardinality({k \in 1 .. Len(events) : events[k].type = "derive"})

\* User code calls deriveLogger(l, opts); the event holds the parent before
\* (m) and after (given) the call, the options (arg2) and the outcome (out)
Derive(l, opts) ==
  LET parent == [class |-> classOf(l), props |-> ownProps(l)]
      r == deriveLogger(parent, opts)
  IN /\ Commit(Record(St, [Ev("derive", l, UserCtx, parent.props, r, opts, classOf(l))
                             EXCEPT !.given = ownProps(l)]))
     /\ calls' = calls + 1
     /\ UNCHANGED <<loggers, iface, tick, thrown, callErrors>>

UserDerive == Derives < MaxDerives /\ \E l \in DeriveParents, o \in DeriveOpts : Derive(l, o)

InitDerive ==
  /\ \E da \in {EmptyFields, [foo |-> "42", bar |-> "abc"]} :
       \E o \in IfaceTargetOpts :
         loggers = [l \in {"root", "memA", "memB"} |->
                      IF l = "memA" THEN [o EXCEPT !.defaultFields = da] ELSE DefaultOpts]
  /\ children = <<"memA", "memB">>
  /\ \E df \in {EmptyFields, [foo |-> "42", bar |-> "abc"]}, lv \in {"silly", "info"} :
       iface = [logger |-> "memA", level |-> lv, filter |-> "identity", defaultFields |-> df]
  /\ InitQueues

NextDerive == UserDerive

SpecDerive == InitDerive /\ [][NextDerive]_vars

----------------------------------------------------------------------------
(* A fan-out whose mapping is changed while it runs: the filter of memA    *)
(* adds memB to root.loggers or deletes it.                                *)

SnapChildMaps == { <<"memA">>, <<"memA", "memB">>, <<"memB", "memA">>, <<"bad", "memA">> }

SnapMessages ==
  { [level |-> "info", message |-> <<"Hello">>],
    [level |-> "warn", message |-> <<"World">>],
    [level |-> "foo", message |-> <<"Hello">>] }

InitSnap ==
  /\ \E fl \in {"identity", "adder", "remover"}, lv \in {"silly", "warn"} :
       loggers = [l \in {"root", "memA", "memB"} |->
                    IF l = "memA" THEN [DefaultOpts EXCEPT !.filter = fl]
                    ELSE IF l = "memB" THEN [DefaultOpts EXCEPT !.level = lv]
                    ELSE DefaultOpts]
  /\ children \in SnapChildMaps
  /\ iface = [logger |-> "memA", level |-> "silly", filter |-> "identity",
              defaultFields |-> EmptyFields]
  /\ InitQueues

UserLogSnap == calls < MaxSnapCalls /\ \E m \in SnapMessages : Log("root", m)

NextSnap == UserLogSnap \/ RunMicrotask \/ RunImmediate

SpecSnap == InitSnap /\ [][NextSnap]_vars

----------------------------------------------------------------------------
(* flush().  MultiLogger.flush() is                                         *)
(*   Promise.all(map(this.loggers, ([_name, sub]) => sub.flush()))          *)
(* The promise of a child settles in a later step; here the flush() of a    *)
(* MemLogger fulfils and the flush() of the "thrower" rejects.              *)

\* How the promise returned by sub.flush() settles
flushResult(sub) == IF kindOf[sub] = "thrower" THEN "rejected" ELSE "fulfilled"

\* map(this.loggers, ...) consumed by Promise.all: flush() is called on each
\* child in the order of the Map
RECURSIVE MultiLogger_flush(_, _, _)
MultiLogger_flush(st, kids, ctx) ==
  IF kids = <<>> THEN st
  ELSE MultiLogger_flush(
         Record(st, Ev("flushinv", Head(kids), ctx, EmptyFields, EmptyFields, EmptyFields,
                       "pending")),
         Tail(kids), ctx)

\* A combinator that fulfils with the first child that fulfils
promiseAny(outcomes, n) ==
  IF "fulfilled" \in {outcomes[k] : k \in 1 .. Len(outcomes)} THEN "fulfilled"
  ELSE IF Len(outcomes) = n /\ n > 0 THEN "rejected"
  ELSE IF n = 0 THEN "fulfilled" ELSE "pending"

\* Promise.all over n promises of which `outcomes` have settled, in order:
\* rejected with the first rejection, fulfilled once all have fulfilled
promiseAll(outcomes, n) ==
  IF "rejected" \in {outcomes[k] : k \in 1 .. Len(outcomes)} THEN "rejected"
  ELSE IF Len(outcomes) = n THEN "fulfilled"
  ELSE "pending"

\* The events of flush call k
FlushEvents(es, k, type) == SelectSeq(es, LAMBDA e : e.type = type /\ e.call = k)

\* The promise returned by flush call k settles when Promise.all settles
settleAggregate(st, k, ctx) ==
  LET n == Len(FlushEvents(st.events, k, "flushinv"))
      done == FlushEvents(st.events, k, "flushset")
      outcome == promiseAll([i \in 1 .. Len(done) |-> done[i].info], n)
  IN IF outcome = "pending" \/ FlushEvents(st.events, k, "flushagg") # <<>> THEN st
     ELSE Record(st, Ev("flushagg", "root", ctx, EmptyFields, EmptyFields, EmptyFields, outcome))

\* User code calls root.flush()
Flush ==
  LET ctx == UserCtx
      st0 == Record(St, Ev("flushcall", "root", ctx, EmptyFields, EmptyFields, children, "flush"))
      st1 == MultiLogger_flush(st0, children, ctx)
  IN /\ Commit(settleAggregate(st1, ctx.call, ctx))
     /\ calls' = calls + 1
     /\ UNCHANGED <<loggers, iface, tick, thrown, callErrors>>

\* The promise returned by the flush() of child events[i].logger settles
ChildFlushSettles(i) ==
  LET e == events[i]
      ctx == [UserCtx EXCEPT !.call = e.call]
      st0 == Record(St, Ev("flushset", e.logger, ctx, EmptyFields, EmptyFields, EmptyFields,
                           flushResult(e.logger)))
  IN /\ e.type = "flushinv"
     /\ \A j \in 1 .. Len(events) :
          ~(events[j].type = "flushset" /\ events[j].call = e.call
              /\ events[j].logger = e.logger)
     /\ Commit(settleAggregate(st0, e.call, ctx))
     /\ UNCHANGED <<loggers, iface, tick, calls, thrown, callErrors>>

FlushChildMaps ==
  { <<"memA", "memB">>, <<"memA", "thrower">>, <<"thrower", "memB">>, <<>> }

InitFlush ==
  /\ loggers = [l \in {"root", "memA", "memB"} |-> DefaultOpts]
  /\ children \in FlushChildMaps
  /\ iface = [logger |-> "memA", level |-> "silly", filter |-> "identity",
              defaultFields |-> EmptyFields]
  /\ InitQueues

UserFlush == calls < MaxFlushCalls /\ Flush

FlushSettles == \E i \in 1 .. Len(events) : ChildFlushSettles(i)

NextFlush == UserFlush \/ FlushSettles

SpecFlush == InitFlush /\ [][NextFlush]_vars

----------------------------------------------------------------------------
(* makeLogMessage applied to field maps that name level, timestamp and     *)
(* message, or not                                                         *)

Some(k, vals) == { EmptyFields } \cup { (k :> v) : v \in vals }

NormalizeInputs ==
  { Overlay(Overlay(a, b), c) :
      a \in Some("level", {"warn", "undefined"}),
      b \in Some("timestamp", {"t0", "undefined"}),
      c \in Some("message", { <<"Hello", "World">>, <<>>, <<NotArray, "just text">>,
                              <<NotArray, "undefined">> }) }

Normalizations == Cardinality({k \in 1 .. Len(events) : events[k].type = "normalize"})

\* User code calls makeLogMessage(fields); makeLogMessage() is the call
\* with the default argument {}
Normalize(fields) ==
  /\ Commit(Record(St, Ev("normalize", "none", UserCtx, fields, makeLogMessage(fields),
                           EmptyFields, "makeLogMessage")))
  /\ calls' = calls + 1
  /\ UNCHANGED <<loggers, iface, tick, thrown, callErrors>>

UserNormalize ==
  Normalizations < MaxNormalizeCalls /\ \E fields \in NormalizeInputs : Normalize(fields)

InitNormalize ==
  /\ loggers = [l \in {"root", "memA", "memB"} |-> DefaultOpts]
  /\ children = <<"memA", "memB">>
  /\ iface = [logger |-> "memA", level |-> "silly", filter |-> "identity",
              defaultFields |-> EmptyFields]
  /\ InitQueues

NextNormalize == UserNormalize

SpecNormalize == InitNormalize /\ [][NextNormalize]_vars

----------------------------------------------------------------------------
(* recordLogs / recordAsyncLogs: the mapping of the root logger is replaced *)
(* by { default: new MemLogger(opts) } while fn runs.  "recA", "recB" and   *)
(* "recC" are the MemLoggers made by the first, second and third call.      *)
(* The "recstart" event of a call holds the mapping it found, its "recend"  *)
(* event the mapping it left.                                               *)

RecorderIds == <<"recA", "recB", "recC">>

\* An exit path that puts the mapping back only when fn did not fail
recordingRestoreOnSuccess(st, backup) ==
  IF st.exc = "none" THEN [st EXCEPT !.children = backup] ELSE st

\* finally { rootLogger.loggers = backup; }
recordingRestore(st, backup) == [st EXCEPT !.children = backup]

RecStarts == SelectSeq(events, LAMBDA e : e.type = "recstart")

RecEnded(rec) == \E i \in 1..Len(events) : events[i].type = "recend" /\ events[i].logger = rec

\* The calls of recordAsyncLogs that wait for the promise of fn
PendingRecordings ==
  { i \in 1..Len(events) : events[i].type = "recstart" /\ ~RecEnded(events[i].logger) }

\* What fn does before it returns: it logs through the root logger, or
\* not, and it returns or throws
RecordedFns ==
  { [logs |-> lg, throws |-> th] :
      lg \in { <<>>, << [level |-> "info", message |-> <<"Hello World">>] >> },
      th \in BOOLEAN }

RecordOpts == {"valid", "unknown"}

\* The part of recordLogs and recordAsyncLogs up to the end of the
\* synchronous run of fn: const backup = rootLogger.loggers;
\* const logger = new MemLogger(opts);
\* try { rootLogger.loggers = dict({ default: logger }); fn(); ...
recordingBegin(st, rec, opts, fn, kind, ctx) ==
  LET st0 == Record(st, Ev("recstart", rec, ctx, st.children, opts, fn, kind)) IN
  IF opts = "unknown" THEN Raise(st0, "Error: Unknown named options")
  ELSE LET st1 == [st0 EXCEPT !.children = <<rec>>]
           st2 == IF fn.logs = <<>> THEN st1
                  ELSE loggerLog(Record(st1, Ev("call", "root", ctx, fn.logs[1], EmptyFields,
                                                EmptyFields, "log")),
                                 "root", fn.logs[1], ctx)
       IN IF fn.throws THEN Raise(st2, "Error: thrown by fn") ELSE st2

\* The end of a call: the finally block, then return logger.buf or the
\* failure.  `entered` says whether the try block was entered.
recordingEnd(st, rec, backup, entered, kind, ctx) ==
  LET st1 == IF entered THEN recordingRestore(st, backup) ELSE st
      outcome == IF st.exc = "none"
                 THEN (IF kind = "sync" THEN "returned" ELSE "fulfilled")
                 ELSE (IF kind = "sync" THEN "thrown" ELSE "rejected")
  IN [Record(st1, Ev("recend", rec, ctx, st1.children, outcome,
                     IF st.exc = "none" THEN st1.buf[rec] ELSE EmptyFields, kind))
        EXCEPT !.exc = "none"]

\* User code calls recordLogs(rootLogger, opts, fn)
RecordLogs(opts, fn) ==
  LET rec == RecorderIds[Len(RecStarts) + 1]
      st1 == recordingBegin(St, rec, opts, fn, "sync", UserCtx)
  IN /\ Commit(recordingEnd(st1, rec, children, opts = "valid", "sync", UserCtx))
     /\ calls' = calls + Len(fn.logs)
     /\ UNCHANGED <<loggers, iface, tick, thrown, callErrors>>

\* User code calls recordAsyncLogs(rootLogger, opts, fn): when fn returns
\* its promise the call waits for it, with the recorder installed
RecordAsyncLogs(opts, fn) ==
  LET rec == RecorderIds[Len(RecStarts) + 1]
      st1 == recordingBegin(St, rec, opts, fn, "async", UserCtx)
  IN /\ Commit(IF st1.exc = "none" THEN st1
               ELSE recordingEnd(st1, rec, children, opts = "valid", "async", UserCtx))
     /\ calls' = calls + Len(fn.logs)
     /\ UNCHANGED <<loggers, iface, tick, thrown, callErrors>>

\* The promise of fn settles and the call of recordAsyncLogs that waits
\* for it resumes after `await fn()`
RecordAsyncSettles(i, rejected) ==
  /\ i \in PendingRecordings
  /\ LET st == IF rejected THEN Raise(St, "Error: rejected by fn") ELSE St
     IN Commit(recordingEnd(st, events[i].logger, events[i].m, TRUE, "async", UserCtx))
  /\ UNCHANGED <<loggers, iface, tick, calls, thrown, callErrors>>

RecordChildMaps == { <<"memA">>, <<"memA", "memB">> }

InitRecord ==
  /\ loggers = [l \in {"root", "memA", "memB", "recA", "recB", "recC"} |-> DefaultOpts]
  /\ children \in RecordChildMaps
  /\ iface = [logger |-> "root", level |-> "silly", filter |-> "identity",
              defaultFields |-> EmptyFields]
  /\ buf = [l \in {"memA", "memB", "cora", "recA", "recB", "recC"} |-> <<>>]
  /\ micro = <<>> /\ immediates = <<>> /\ inflight = <<>> /\ events = <<>>
  /\ tick = 0 /\ calls = 0 /\ thrown = FALSE /\ callErrors = 0 /\ unhandled = 0

CanRecord == Len(RecStarts) < MaxRecordings /\ Len(RecStarts) < Len(RecorderIds)

UserRecords ==
  CanRecord /\ \E o \in RecordOpts, fn \in RecordedFns : RecordLogs(o, fn)

UserRecordsAsync ==
  CanRecord /\ \E o \in RecordOpts, fn \in RecordedFns : RecordAsyncLogs(o, fn)

FnSettles == \E i \in PendingRecordings, r \in BOOLEAN : RecordAsyncSettles(i, r)

\* Code that runs while a recording waits logs through the root logger
UserLogRecorded ==
  /\ calls < MaxRecordLogs
  /\ PendingRecordings # {}
  /\ Log("root", [level |-> "warn", message |-> <<"Foo">>])

NextRecord == UserRecords \/ UserRecordsAsync \/ FnSettles \/ UserLogRecorded

SpecRecord == InitRecord /\ [][NextRecord]_vars

----------------------------------------------------------------------------
(* BigDate: new BigDate() reads the monotonic clock and adds the offset     *)
(* _hrtimeOffset = [ms, ns] measured against the wall clock.  The clocks    *)
(* are the environment: `hr` is the monotonic clock in ns, and the wall     *)
(* clock shows skew + hr / 1e6 ms, where the skew changes when the wall     *)
(* clock is set.  Epoch values are kept small; the arithmetic is the same.  *)

NsPerMs == 1000000
NsPerSec == 1000000000
MsPerSec == 1000
JumpThreshold == 3

\* hrtime() is [seconds, nanoseconds]
hrtime(hr) == <<hr \div NsPerSec, hr % NsPerSec>>

\* new Date().getTime()
wallClock(hr, skew) == skew + (hr \div NsPerMs)

abs(x) == IF x < 0 THEN -x ELSE x

\* _calcHrtimeOff(): [(dateMs - hrtimeMs), hrtimeNs]
calcHrtimeOff(hr, skew) ==
  LET h == hrtime(hr)
      dateMs == wallClock(hr, skew)
      hrtimeMs == (h[1] * MsPerSec) + (h[2] \div NsPerMs)
      hrtimeNs == h[2] % NsPerMs
  IN <<dateMs - hrtimeMs, hrtimeNs>>

\* A sum that leaves out the nanoseconds
addOffsetMsOnly(h, off) ==
  [ms |-> (h[1] * MsPerSec) + (h[2] \div NsPerMs) + off[1], ns |-> 0]

\* Two component addition with manual overflow:
\*   ms += _hrtimeOffset[0]; ns += _hrtimeOffset[1];
\*   if (ns > 1e6) { ms += 1; ns %= 1e6; }
addOffset(h, off) ==
  LET ms == (h[1] * MsPerSec) + (h[2] \div NsPerMs) + off[1]
      ns == (h[2] % NsPerMs) + off[2]
  IN IF ns > NsPerMs THEN [ms |-> ms + 1, ns |-> ns % NsPerMs]
     ELSE [ms |-> ms, ns |-> ns]

\* BigDate.toISOString(): the text of Date.toISOString() for the ms part
\* up to the seconds, then the decimals of preciseTime() / 1000 padded to
\* nine places.  `sec` stands for the text before the point.
toISOString(ms, frac) ==
  [sec |-> ms \div MsPerSec,
   decimals |-> ((ms % MsPerSec) * NsPerMs + frac) % NsPerSec]

\* BigDate._initString(s): new Date(s) keeps the first three decimals of
\* the seconds, and the remainder is Big(secLit).mul(1e9).mod(1e6)
BigDate_initString(iso) ==
  [ms |-> (iso.sec * MsPerSec) + (iso.decimals \div NsPerMs),
   frac |-> iso.decimals % NsPerMs]

\* A constructor that measures the offset again and keeps the timestamp
\* it computed with the old one
BigDate_nowStale(hr, skew, off, lat) ==
  LET h == hrtime(hr)
      ref == wallClock(hr, skew)
      t == addOffset(h, off)
  IN IF abs(ref - t.ms) >= JumpThreshold
     THEN [ms |-> t.ms, frac |-> t.ns, off |-> calcHrtimeOff(hr + lat, skew), jump |-> TRUE]
     ELSE [ms |-> t.ms, frac |-> t.ns, off |-> off, jump |-> FALSE]

\* new BigDate(): the fast path of the constructor.  `lat` is the time in
\* ns between hrtime() of the constructor and hrtime() of _calcHrtimeOff()
\* when a clock jump is detected.
BigDate_now(hr, skew, off, lat) ==
  LET h == hrtime(hr)
      ref == wallClock(hr, skew)
      t == addOffset(h, off)
  IN IF abs(ref - t.ms) >= JumpThreshold
     THEN LET off2 == calcHrtimeOff(hr + lat, skew)
              t2 == addOffset(h, off2)
          IN [ms |-> t2.ms, frac |-> t2.ns, off |-> off2, jump |-> TRUE]
     ELSE [ms |-> t.ms, frac |-> t.ns, off |-> off, jump |-> FALSE]

\* The readings of the clocks and the offset after the last step
LastClock == events[Len(events)]

\* Time spent between two calls (ns), and steps of the wall clock (ms)
ClockDeltas == {1, 250, 400000, 800000}
ClockJumps == {0, 2, -3, -5, 5}
CalibrationLatency == 100

\* User code calls new BigDate() after d ns; the wall clock was set by j ms
Now(d, j) ==
  LET c == LastClock
      hr == c.m.hr + d
      skew == c.m.skew + j
      r == BigDate_now(hr, skew, c.arg2, CalibrationLatency)
  IN /\ Commit(Record(St, Ev("now", "none", UserCtx,
                              [hr |-> hr, skew |-> skew],
                              [ms |-> r.ms, frac |-> r.frac, iso |-> toISOString(r.ms, r.frac)],
                              r.off, IF r.jump THEN "recalibrated" ELSE "now")))
     /\ calls' = calls + 1
     /\ UNCHANGED <<loggers, iface, tick, thrown, callErrors>>

UserNow == calls < MaxNowCalls /\ \E d \in ClockDeltas, j \in ClockJumps : Now(d, j)

\* let _hrtimeOffset = _calcHrtimeOff() when the module is loaded
InitClock ==
  /\ loggers = [l \in {"root", "memA", "memB"} |-> DefaultOpts]
  /\ children = <<"memA", "memB">>
  /\ iface = [logger |-> "memA", level |-> "silly", filter |-> "identity",
              defaultFields |-> EmptyFields]
  /\ buf = [l \in Sinks |-> <<>>]
  /\ micro = <<>> /\ immediates = <<>> /\ inflight = <<>>
  /\ tick = 0 /\ calls = 0 /\ thrown = FALSE /\ callErrors = 0 /\ unhandled = 0
  /\ \E hr \in {0, 600000, 999999, 999600000}, skew \in {5000, 5998} :
       events = << [Ev("calibrate", "none",
                       [call |-> 0, depth |-> 0, tick |-> 0, ftick |-> 0, by |-> "logger"],
                       [hr |-> hr, skew |-> skew], EmptyFields,
                       calcHrtimeOff(hr, skew), "load") EXCEPT !.opts = EmptyFields] >>

NextClock == UserNow

SpecClock == InitClock /\ [][NextClock]_vars

----------------------------------------------------------------------------
(* messageFormatJson.  The components of a message are values of any type:  *)
(* here Strings and Numbers, each held with its type.  The timestamp is a   *)
(* BigDate, held as its millisecond base and remainder.                     *)

Str(s) == [type |-> "String", v |-> s]
Num(n) == [type |-> "Number", v |-> n]

\* tryInspect(what): util.inspect of a Number
tryInspect(c) == ToString(c.v)

RECURSIVE joinWith(_, _)
joinWith(parts, sep) ==
  IF parts = <<>> THEN ""
  ELSE IF Len(parts) = 1 THEN parts[1]
  ELSE parts[1] \o sep \o joinWith(Tail(parts), sep)

\* A serialization that puts a space between the components
serializeMessageSpaced(fields) ==
  IF ~HasKey(fields, "message") THEN ""
  ELSE joinWith([i \in 1..Len(fields.message) |->
                   IF fields.message[i].type = "String" THEN fields.message[i].v
                   ELSE tryInspect(fields.message[i])], " ")

\* serializeMessage(msg) for the message of `fields`: '' when there is
\* none, else map(v => type(v) === String ? v : tryInspect(v)), join('')
serializeMessage(fields) ==
  IF ~HasKey(fields, "message") THEN ""
  ELSE joinWith([i \in 1..Len(fields.message) |->
                   IF fields.message[i].type = "String" THEN fields.message[i].v
                   ELSE tryInspect(fields.message[i])], "")

\* jsonifyForLog of an Object: every value converted by its type; Strings,
\* Numbers and Booleans are kept, a Date becomes what.toJSON(), which for
\* a BigDate is toISOString().  The timestamp is the Date of the record.
jsonifyForLog(o) ==
  [k \in DOMAIN o |->
     IF k = "timestamp" THEN toISOString(o[k].ms, o[k].frac) ELSE o[k]]

\* messageFormatJson = ({ message, ...fields }) =>
\*   jsonifyForLog({ message: serializeMessage(message), ...fields })
messageFormatJson(fields) ==
  jsonifyForLog(Overlay([message |-> serializeMessage(fields)], Without(fields, "message")))

JsonMessages ==
  { <<Str("Hello "), Num(42), Str(" World")>>, <<>>, <<Str("Foo")>>, <<Num(7), Num(8)>> }

JsonInputs ==
  { Overlay(Overlay([level |-> lv, timestamp |-> ts], m), x) :
      lv \in {"warn", "info"},
      ts \in { [ms |-> 5000, frac |-> 0], [ms |-> 5999, frac |-> 999999] },
      m \in {EmptyFields} \cup { [message |-> c] : c \in JsonMessages },
      x \in {EmptyFields, [gerbil |-> TRUE]} }

\* User code formats a message
FormatJson(fields) ==
  /\ Commit(Record(St, Ev("format", "none", UserCtx, fields, messageFormatJson(fields),
                          EmptyFields, "json")))
  /\ calls' = calls + 1
  /\ UNCHANGED <<loggers, iface, tick, thrown, callErrors>>

UserFormats == calls < MaxFormatCalls /\ \E f \in JsonInputs : FormatJson(f)

InitFormat ==
  /\ loggers = [l \in {"root", "memA", "memB"} |-> DefaultOpts]
  /\ children = <<"memA", "memB">>
  /\ iface = [logger |-> "memA", level |-> "silly", filter |-> "identity",
              defaultFields |-> EmptyFields]
  /\ InitQueues

NextFormat == UserFormats

SpecFormat == InitFormat /\ [][NextFormat]_vars

----------------------------------------------------------------------------
(* A sink that writes asynchronously: the CoralogixLogger posts the payload *)
(* and retries a failed request after 5, 10 and 15 ms.  The answers of the  *)
(* server and the timers are macrotasks of the event loop.                   *)

\* A loop that gives up one attempt earlier
retryDelaysShort == <<5, 10>>

\* for (const t of [5, 10, 15])
retryDelays == <<5, 10, 15>>

RemoveAt(q, i) == [j \in 1 .. Len(q) - 1 |-> IF j < i THEN q[j] ELSE q[j + 1]]

\* The request of inflight[i] is answered: _logImpl returns
SendSucceeds(i) ==
  LET r == inflight[i]
      st0 == [St EXCEPT !.inflight = RemoveAt(@, i),
                        !.buf[r.logger] = Append(@, r.payload)]
  IN /\ micro = <<>>
     /\ Commit(Record(st0, [Ev("write", r.logger, r.ctx, r.m, r.payload, r.fields, "formatted")
                              EXCEPT !.given = r.given, !.info = r.attempt]))
     /\ tick' = tick + 1
     /\ UNCHANGED <<loggers, iface, calls, thrown, callErrors>>

\* The requests that have failed so far
SendFailures ==
  Cardinality({k \in 1 .. Len(events) :
                 /\ events[k].type \in {"retry", "fail"}
                 /\ kindOf[events[k].logger] = "coralogix"})

\* The request of inflight[i] fails.  After each of the first three
\* attempts _logImpl waits retryDelays[attempt] ms and sends the request
\* again; the failure of the fourth attempt rejects the promise of _logImpl.
SendFails(i) ==
  LET r == inflight[i] IN
  /\ micro = <<>>
  /\ SendFailures < MaxSendFailures
  /\ IF r.attempt <= Len(retryDelays)
     THEN Commit(Record([St EXCEPT !.inflight[i].attempt = @ + 1],
                        [Ev("retry", r.logger, r.ctx, r.m, EmptyFields, EmptyFields, "wait")
                           EXCEPT !.info = retryDelays[r.attempt]]))
     ELSE Commit(handleLoggingExceptions(
                   r.m, r.logger,
                   Raise([St EXCEPT !.inflight = RemoveAt(@, i)], "Error: request failed"),
                   r.ctx))
  /\ tick' = tick + 1
  /\ UNCHANGED <<loggers, iface, calls, thrown, callErrors>>

AsyncChildMaps == { <<"cora", "memA">>, <<"memA", "cora">>, <<"bad", "memA", "cora">> }

AsyncMessages ==
  { [level |-> "info", message |-> <<"Hello">>],
    [level |-> "error", message |-> <<errorMsg>>] }

InitAsync ==
  /\ \E oa \in {DefaultOpts, [DefaultOpts EXCEPT !.filter = "broken"]} :
       loggers = [l \in {"root", "memA", "memB", "cora"} |->
                    IF l = "memA" THEN oa ELSE DefaultOpts]
  /\ children \in AsyncChildMaps
  /\ iface = [logger |-> "cora", level |-> "silly", filter |-> "identity",
              defaultFields |-> EmptyFields]
  /\ InitQueues

UserLogAsync == calls < MaxAsyncCalls /\ \E m \in AsyncMessages : Log("root", m)

Network ==
  \E i \in 1 .. Len(inflight) : SendSucceeds(i) \/ SendFails(i)

NextAsync == UserLogAsync \/ RunMicrotask \/ RunImmediate \/ Network

SpecAsync == InitAsync /\ [][NextAsync]_vars

----------------------------------------------------------------------------
(* One Logger, any options: the behaviours in which a MemLogger or the     *)
(* MultiLogger is constructed with options drawn from GateOpts and user     *)
(* code logs messages of every level.                                       *)

GateOpts ==
  { [level |-> lv, filter |-> fl, defaultFields |-> df, formatter |-> fm, sink |-> "ok"]
      : lv \in LevelNames, fl \in {"identity", "keep", "borg"},
        df \in {EmptyFields, [application |-> "dflt", keep |-> "true"]},
        fm \in {"identity", "simple"} }

GateMessages ==
  { [level |-> lv, message |-> <<"Hello">>] : lv \in LevelNames \cup {"foo"} }
    \cup
  { [level |-> lv, message |-> <<"World">>, keep |-> "yes", application |-> "app"]
      : lv \in LevelNames }

InitGate ==
  /\ \E t \in LogTargets, o \in GateOpts :
       /\ t = "root" => o.formatter = "identity"
       /\ loggers = [l \in {"root", "memA", "memB"} |-> IF l = t THEN o ELSE DefaultOpts]
  /\ children = <<"memA", "memB">>
  /\ iface = [logger |-> "memA", level |-> "silly", filter |-> "identity",
              defaultFields |-> EmptyFields]
  /\ InitQueues

UserLogGate == calls < MaxGateCalls /\ \E l \in LogTargets, m \in GateMessages : Log(l, m)

NextGate == UserLogGate \/ RunMicrotask \/ RunImmediate

SpecGate == InitGate /\ [][NextGate]_vars

----------------------------------------------------------------------------
(* Properties *)

Idx == 1 .. Len(events)

Drained == micro = <<>> /\ immediates = <<>>

\* The messages of the events of `es`, in order
MessagesOf(es) == [i \in 1 .. Len(es) |-> es[i].m]

\* The reports emitted for user call k
ReportsOf(k) == { i \in Idx : events[i].type = "diag" /\ events[i].call = k }

\* C1: whatever stage of the pipeline fails (filter, level lookup, formatter,
\* sink write), in a Logger or in the Interface, no call of log() or of an
\* Interface entry point passes the failure on to its caller.
C1_LogNeverThrows == thrown = FALSE

C1_Witness ==
  /\ Drained
  /\ ~thrown
  /\ \E i \in Idx : events[i].type = "fail" /\ events[i].info = "Error: Not a valid log level"
  /\ \E i \in Idx : /\ events[i].type = "fail"
                    /\ events[i].info = "TypeError: filter is not a function"
                    /\ \E j \in Idx : /\ events[j].type = "call"
                                       /\ events[j].call = events[i].call
                                       /\ events[j].logger = "iface"

\* The messages passed to root.log() that root's own filter and level gate
\* let through (root has the default options), in call order
PassedToRoot ==
  MessagesOf(SelectSeq(events,
     LAMBDA e : /\ e.type \in {"call", "diag"}
                /\ e.logger = "root"
                /\ HasKey(e.m, "level")
                /\ validLogLevel(e.m.level)))

ReceivedBy(c) ==
  MessagesOf(SelectSeq(events, LAMBDA e : e.type = "recv" /\ e.logger = c))

HealthyChildren == { c \in Sinks : \E i \in 1 .. Len(children) : children[i] = c }

\* C2: with a child in the fan-out that fails on every call (null, or a log()
\* that throws), every other child is handed every message passed to the
\* fan-out, in call order, and the sink of a working child holds them all.
C2_SiblingsReceiveAll ==
  /\ \A c \in HealthyChildren : ReceivedBy(c) = PassedToRoot
  /\ buf["memB"] = PassedToRoot

C2_Witness ==
  /\ children = <<"memA", "thrower", "memB">>
  /\ Len(PassedToRoot) = 2
  /\ PassedToRoot[1] # PassedToRoot[2]
  /\ buf["memB"] = PassedToRoot

\* The calls of a tight loop on the Logger with the failing filter: every
\* call so far went to memA, whose filter throws, before any report fired
TightLoopOnBrokenFilter ==
  /\ loggers["memA"].filter = "broken"
  /\ calls >= 2
  /\ \A i \in Idx : events[i].type = "call" => (events[i].logger = "memA" /\ events[i].tick = 0)

\* C3 as stated: a tight loop of calls on a Logger whose filter throws emits
\* at most one diagnostic in total.
C3_Original ==
  TightLoopOnBrokenFilter => Cardinality({ i \in Idx : events[i].type = "diag" }) <= 1

\* C3, amended: a tight loop of n calls on a Logger whose filter throws emits
\* at most n diagnostics, at most one for each call.
C3_OneReportPerCall ==
  TightLoopOnBrokenFilter =>
    /\ Cardinality({ i \in Idx : events[i].type = "diag" }) <= calls
    /\ \A k \in 1 .. calls : Cardinality(ReportsOf(k)) <= 1

C3_Witness ==
  /\ TightLoopOnBrokenFilter
  /\ Drained
  /\ \A k \in 1 .. calls : Cardinality(ReportsOf(k)) = 1
  /\ \E i \in Idx : events[i].type = "suppress"

\* C4: a failure on a message whose display sequence is the sentinel never
\* emits a diagnostic: every diagnostic reports the failure of a message that
\* is not a diagnostic, and is one report away from a call of user code.
C4_NoReportAboutReport ==
  \A i \in Idx : events[i].type = "diag" =>
    /\ ~isDiagnostic(events[i].arg2)
    /\ events[i].depth = 1

C4_Witness ==
  /\ Drained
  /\ \E i \in Idx : /\ events[i].type = "suppress"
                    /\ events[i].depth = 1
                    /\ isDiagnostic(events[i].m)

\* C6: once the queues are empty, every failure on a message that is not a
\* diagnostic has led to exactly one diagnostic handed to the root logger,
\* with level error, the sentinel message, the failure and the failing Logger.
C6_RootGetsOneReport ==
  Drained =>
    \A i \in Idx : (events[i].type = "fail" /\ ~isDiagnostic(events[i].m)) =>
      Cardinality({ j \in Idx :
                      /\ events[j].type = "diag"
                      /\ events[j].logger = "root"
                      /\ events[j].call = events[i].call
                      /\ events[j].m.level = "error"
                      /\ events[j].m.message = <<errorMsg>>
                      /\ events[j].m.exception = events[i].info
                      /\ events[j].m.logger = events[i].logger }) = 1

C6_Witness ==
  /\ Drained
  /\ loggers["memA"].filter = "broken"
  /\ \E i \in Idx : \E j \in Idx : \E k \in Idx :
       /\ events[i].type = "fail" /\ events[i].logger = "memA" /\ events[i].depth = 0
       /\ ~isDiagnostic(events[i].m)
       /\ events[j].type = "diag" /\ events[j].logger = "memA"
       /\ events[j].call = events[i].call
       /\ events[k].type = "suppress" /\ events[k].call = events[i].call
       /\ i < j /\ j < k
  /\ \A c \in {"memA", "memB"} : \A n \in 1 .. Len(buf[c]) : ~isDiagnostic(buf[c][n])

\* The events that end a run of the pipeline of a LoggerBase: the message
\* was dropped, written, fanned out, or the run failed
IsOutcome(e) ==
  /\ e.type \in {"drop", "write", "fanout", "fail"}
  /\ e.logger \in DOMAIN loggers
  /\ e.by = "logger"

Delivered(e) == e.type \in {"write", "fanout"}

FilterResult(e) == applyFilter(e.opts.filter, e.m)

severityRank ==
  [fatal |-> 0, error |-> 1, warn |-> 2, info |-> 3,
   verbose |-> 4, debug |-> 5, trace |-> 6, silly |-> 7]

\* C7: a message that passed the filter is handed to the sink if and only if
\* the rank of its level is at most the rank of the Logger's level (fatal=0
\* ... silly=7); at level warn exactly fatal, error and warn are delivered.
C7_LevelGate ==
  \A i \in Idx :
    LET e == events[i]
        f == FilterResult(e)
    IN (IsOutcome(e) /\ f.tag = "value" /\ f.v.level \in LevelNames) =>
         /\ Delivered(e) <=> severityRank[f.v.level] <= severityRank[e.opts.level]
         /\ e.opts.level = "warn" => (Delivered(e) <=> f.v.level \in {"fatal", "error", "warn"})
         /\ ~Delivered(e) => (e.type = "drop" /\ e.info = "level")

C7_Witness ==
  /\ loggers["memA"].level = "warn"
  /\ Drained
  /\ \E i \in Idx : /\ events[i].type = "drop" /\ events[i].info = "level"
                    /\ events[i].logger = "memA" /\ events[i].m.level = "info"
  /\ buf["memB"] # <<>>

\* C8: when the filter returns undefined the run ends there: nothing is
\* written or fanned out for the message and no diagnostic is emitted for it.
C8_FilterDrop ==
  \A i \in Idx :
    LET e == events[i] IN
    (IsOutcome(e) /\ FilterResult(e).tag = "undefined") =>
      /\ e.type = "drop" /\ e.info = "filter"
      /\ \A j \in Idx :
           (events[j].call = e.call /\ events[j].depth >= e.depth) =>
             /\ ~(events[j].type \in {"write", "fanout"} /\ events[j].logger = e.logger
                    /\ events[j].depth = e.depth)
             /\ ~(events[j].type = "diag" /\ events[j].logger = e.logger)

C8_Witness ==
  /\ Drained
  /\ calls >= 1
  /\ loggers["memA"].filter = "keep"
  /\ \E i \in Idx : /\ events[i].type = "drop" /\ events[i].info = "filter"
                    /\ events[i].logger = "memA"
  /\ buf["memA"] = <<>>
  /\ \A i \in Idx : events[i].type # "diag"

\* C9: the record handed to the formatter (or, without formatter, to the
\* sink) holds every field of the filtered message with its value and every
\* defaultFields key that the filtered message lacks, and nothing else; the
\* filter saw the message without the defaults.
C9_DefaultsMergedAfterFilter ==
  \A i \in Idx :
    LET e == events[i]
        f == FilterResult(e)
        d == e.opts.defaultFields
    IN Delivered(e) =>
         /\ f.tag = "value"
         /\ DOMAIN e.given = (DOMAIN d) \cup (DOMAIN f.v)
         /\ \A k \in DOMAIN f.v : e.given[k] = f.v[k]
         /\ \A k \in (DOMAIN d) \ (DOMAIN f.v) : e.given[k] = d[k]

C9_Witness ==
  \E i \in Idx :
    /\ events[i].type = "write"
    /\ events[i].opts.filter = "keep"
    /\ events[i].opts.defaultFields # EmptyFields
    /\ events[i].m.application = "app"
    /\ events[i].given.application = "app"
    /\ events[i].given.keep = "true"

\* C10: the sink-specific write of a Logger with a formatter is given the
\* formatter's output for the merged record and the merged record itself.
C10_SinkGetsMergedRecord ==
  \A i \in Idx :
    LET e == events[i]
        merged == Overlay(e.opts.defaultFields, FilterResult(e).v)
    IN e.type = "write" =>
         /\ e.out = applyFormatter(e.opts.formatter, merged).v
         /\ e.arg2 = merged

C10_Witness ==
  \E i \in Idx :
    /\ events[i].type = "write"
    /\ events[i].opts.formatter = "simple"
    /\ events[i].opts.defaultFields # EmptyFields
    /\ events[i].out = applyFormatter("simple", events[i].given).v
    /\ events[i].arg2 # events[i].given
    /\ ~HasKey(events[i].arg2, "application")

CallOf(e) == CHOOSE c \in Idx : events[c].type = "call" /\ events[c].call = e.call

\* What the Interface's filter returns for the record of call event c
IfaceFilterResult(c) ==
  applyFilter(iface.filter, Overlay(iface.defaultFields, makeLogMessage(c.m)))

\* C11: a message sent through the Interface is written to the sink of the
\* target Logger only if the Interface's filter kept it and its level passed
\* the Interface's level, and the Logger's filter kept what the Interface
\* forwarded and its level passed the Logger's level.
C11_BothStagesMustPass ==
  \A i \in Idx :
    LET e == events[i]
        c == events[CallOf(e)]
        f == IfaceFilterResult(c)
    IN (e.type = "write" /\ e.depth = 0 /\ c.logger = "iface") =>
         /\ f.tag = "value"
         /\ severityRank[f.v.level] <= severityRank[iface.level]
         /\ LET g == applyFilter(loggers[e.logger].filter, f.v)
            IN /\ g.tag = "value"
               /\ severityRank[g.v.level] <= severityRank[loggers[e.logger].level]

C11_Witness ==
  /\ Drained
  /\ iface.filter = "keep" /\ iface.level = "info"
  /\ loggers["memA"].filter = "keep" /\ loggers["memA"].level = "error"
  /\ iface.defaultFields = EmptyFields
  /\ \E i \in Idx : \E j \in Idx : \E k \in Idx :
       /\ events[i].type = "forward" /\ events[j].type = "drop"
       /\ events[j].logger = "memA" /\ events[j].info = "filter"
       /\ events[j].call = events[i].call
       /\ events[k].type = "drop" /\ events[k].logger = "iface" /\ events[k].info = "level"
  /\ buf["memA"] = <<>>

\* C12: in a call with trailing fields, a message or level key of the
\* trailing fields is what the record handed on by the entry point carries,
\* not the joined positional arguments or the level of the entry point.
C12_FieldsTakePrecedence ==
  \A i \in Idx :
    LET e == events[i]
        c == events[CallOf(e)]
    IN (c.logger = "iface" /\ e.depth = 0
          /\ \/ e.type = "forward" /\ e.info = "iface"
             \/ e.type = "drop" /\ e.logger = "iface") =>
         /\ HasKey(c.out, "message") =>
              /\ e.m.message = c.out.message
              /\ e.type = "forward" => e.out.message = c.out.message
         /\ HasKey(c.out, "level") =>
              /\ e.m.level = c.out.level
              /\ e.type = "forward" => e.out.level = c.out.level

C12_Witness ==
  \E i \in Idx : \E j \in Idx :
    /\ events[i].type = "call" /\ events[i].logger = "iface"
    /\ events[i].out = [message |-> <<"Hi">>, level |-> "fatal"]
    /\ events[i].arg2 = [message |-> <<"Foo">>, level |-> "silly"]
    /\ events[j].type = "write" /\ events[j].call = events[i].call
    /\ events[j].out.level = "fatal" /\ events[j].out.message = <<"Hi">>

\* The calls of an entry point with a missing or malformed trailing argument
MalformedCalls == { i \in Idx : events[i].type = "call" /\ events[i].info = "malformed" }

\* C13: a call whose last argument is missing or is not a plain Object
\* throws to its caller, and nothing is filtered, forwarded, written or
\* reported for it.
C13_MalformedFieldsThrow ==
  /\ callErrors = Cardinality(MalformedCalls)
  /\ \A i \in MalformedCalls : \A j \in Idx : events[j].call = events[i].call => j = i

C13_Witness ==
  /\ Drained
  /\ calls = 2
  /\ callErrors = 1
  /\ \E i \in MalformedCalls : events[i].arg2.message = <<>>
  /\ Len(buf["memA"]) = 1

\* The keys of an object that are configuration: what its constructor takes
ConfigKeys == {"logger", "level", "filter", "formatter", "stream"}

\* C14: deriveLogger(parent, opts) returns an object of the parent's class
\* whose defaultFields are the parent's overlaid with opts.defaultFields and
\* whose other options are those of opts, else those of the parent; the
\* parent is as it was.
C14_DeriveOverlays ==
  \A i \in Idx :
    LET e == events[i]
        optFields == IF HasKey(e.arg2, "defaultFields") THEN e.arg2.defaultFields
                     ELSE EmptyFields
    IN e.type = "derive" =>
         /\ e.out.tag = "value"
         /\ e.out.v.defaultFields = Overlay(e.m.defaultFields, optFields)
         /\ \A k \in ConfigKeys \cap DOMAIN e.m :
              e.out.v[k] = IF HasKey(e.arg2, k) THEN e.arg2[k] ELSE e.m[k]
         /\ e.given = e.m

\* deriveLogger of a MemLogger throws, of an Interface returns
C14_Witness ==
  /\ \E i \in Idx : /\ events[i].type = "derive" /\ events[i].info = "MemLogger"
                    /\ events[i].out.tag = "throw"
                    /\ events[i].arg2 = [defaultFields |-> [bar |-> "xyz"]]

\* The calls of l.log(), in order: by user code, by the fan-out, by the
\* Interface and by the catch block reporting a failure
IsArrival(e, l) ==
  /\ e.logger = l
  /\ \/ e.type \in {"call", "recv", "diag"}
     \/ e.type = "forward" /\ e.info = "iface"

ArrivalMsg(e) == IF e.type = "forward" THEN e.out ELSE e.m

\* The message passes the filter and the level gate of l and is written
PassesPipeline(l, m) ==
  LET o == loggers[l]
      f == applyFilter(o.filter, m)
  IN /\ f.tag = "value"
     /\ HasKey(f.v, "level") /\ f.v.level \in LevelNames
     /\ severityRank[f.v.level] <= severityRank[o.level]
     /\ applyFormatter(o.formatter, Overlay(o.defaultFields, f.v)).tag = "value"
     /\ o.sink = "ok"

ArrivalsAt(l) ==
  LET es == SelectSeq(events, LAMBDA e : IsArrival(e, l))
  IN [i \in 1 .. Len(es) |-> ArrivalMsg(es[i])]

WritesAt(l) == SelectSeq(events, LAMBDA e : e.type = "write" /\ e.logger = l)

\* C15: the sink writes of one Logger are those of the messages passed to
\* its log() that pass its filter and level gate, in the order of the calls,
\* and its sink holds their payloads in that order.
C15_WritesInCallOrder ==
  \A l \in {"memA", "memB"} :
    /\ MessagesOf(WritesAt(l)) = SelectSeq(ArrivalsAt(l), LAMBDA m : PassesPipeline(l, m))
    /\ buf[l] = [i \in 1 .. Len(WritesAt(l)) |-> WritesAt(l)[i].out]

C15_Witness ==
  /\ Len(buf["memA"]) = 2
  /\ buf["memA"][1] # buf["memA"][2]
  /\ Len(ArrivalsAt("memA")) = 2
  /\ \E i \in Idx : events[i].type = "call" /\ events[i].logger = "memA"
  /\ \E i \in Idx : events[i].type = "recv" /\ events[i].logger = "memA"

\* The children handed the message of the fan-out recorded at events[i]
ReceiversOf(i) ==
  LET es == SelectSeq(events, LAMBDA e : /\ e.type = "recv"
                                          /\ e.call = events[i].call
                                          /\ e.depth = events[i].depth
                                          /\ e.info = events[i].logger)
  IN [k \in 1 .. Len(es) |-> es[k].logger]

Range(q) == { q[k] : k \in 1 .. Len(q) }

\* The end of the fan-out that events[i] starts
EndOf(i) ==
  CHOOSE j \in Idx : /\ events[j].type = "fanned" /\ j > i
                     /\ events[j].call = events[i].call
                     /\ events[j].depth = events[i].depth

FlushedIn(k) == { events[j].logger : j \in { j \in Idx : events[j].type = "flushinv"
                                                          /\ events[j].call = k } }

SettledBefore(i, o) ==
  { events[j].logger : j \in { j \in Idx : /\ j < i
                                             /\ events[j].type = "flushset"
                                             /\ events[j].call = events[i].call
                                             /\ events[j].info \in o } }

Present(r, k) == HasKey(r, k) /\ r[k] # "undefined"

C19_FracInRange ==
  \A i \in Idx : events[i].type = "now" =>
    (0 <= events[i].out.frac /\ events[i].out.frac < NsPerMs)

\* The nanosecond parts add up to exactly one millisecond
C19_Witness ==
  \E i \in Idx :
    /\ events[i].type = "now" /\ events[i].info = "now"
    /\ (events[i].m.hr % NsPerMs) + events[i].arg2[2] = NsPerMs
    /\ events[i].out.frac = NsPerMs

\* t1 - t0 in nanoseconds, for the timestamps of two events
PreciseDiff(e1, e0) == (e1.out.ms - e0.out.ms) * NsPerMs + (e1.out.frac - e0.out.frac)

\* C20 as stated: of two calls of new BigDate() in immediate succession the
\* later returns the greater timestamp, and their ISO texts differ.
C20_Original ==
  \A i \in Idx :
    (i > 1 /\ events[i].type = "now" /\ events[i - 1].type = "now") =>
      /\ events[i].out.iso # events[i - 1].out.iso
      /\ PreciseDiff(events[i], events[i - 1]) > 0

\* C20, amended: of two calls of new BigDate() in immediate succession,
\* between which the monotonic clock has advanced, the later returns the
\* greater timestamp and their ISO texts differ, also within one
\* millisecond, unless the later call detects a jump of the wall clock and
\* measures the offset again.
C20_SuccessiveDiffer ==
  \A i \in Idx :
    (i > 1 /\ events[i].type = "now" /\ events[i - 1].type = "now"
       /\ events[i].info # "recalibrated") =>
      /\ events[i].out.iso # events[i - 1].out.iso
      /\ PreciseDiff(events[i], events[i - 1]) = events[i].m.hr - events[i - 1].m.hr
      /\ PreciseDiff(events[i], events[i - 1]) > 0

C20_Witness ==
  \E i \in Idx :
    /\ i > 1 /\ events[i].type = "now" /\ events[i - 1].type = "now"
    /\ events[i].info = "now"
    /\ events[i].out.ms = events[i - 1].out.ms
    /\ events[i].m.hr = events[i - 1].m.hr + 1
    /\ events[i].out.iso.sec = events[i - 1].out.iso.sec
    /\ events[i].out.iso.decimals = events[i - 1].out.iso.decimals + 1

\* C21: new BigDate() replaces _hrtimeOffset exactly when the millisecond
\* time it computed from hrtime() and the old offset differs from the time
\* of new Date() taken in the same call by more than 2.5 ms; then it returns
\* the timestamp computed again with the new offset, and otherwise it
\* leaves the offset as it was and returns the first timestamp.
C21_RecalibrateIffJump ==
  \A i \in Idx :
    (i > 1 /\ events[i].type = "now") =>
      LET e == events[i]
          old == events[i - 1].arg2
          h == hrtime(e.m.hr)
          t == addOffset(h, old)
          far == 2 * abs(wallClock(e.m.hr, e.m.skew) - t.ms) > 5
          t2 == addOffset(h, e.arg2)
      IN /\ (e.info = "recalibrated") <=> far
         /\ far => /\ e.arg2 # old
                   /\ e.out.ms = t2.ms /\ e.out.frac = t2.ns
                   /\ 2 * abs(wallClock(e.m.hr, e.m.skew) - e.out.ms) <= 5
         /\ ~far => /\ e.arg2 = old
                    /\ e.out.ms = t.ms /\ e.out.frac = t.ns

\* One call sees the wall clock 2 ms off and keeps the offset, the next
\* sees it further off and measures the offset again
C21_Witness ==
  \E i \in Idx :
    /\ i > 2 /\ events[i].type = "now" /\ events[i - 1].type = "now"
    /\ events[i - 1].info = "now" /\ events[i - 1].m.skew = events[i - 2].m.skew + 2
    /\ events[i - 1].arg2 = events[i - 2].arg2
    /\ events[i].info = "recalibrated"
    /\ events[i].arg2 # events[i - 1].arg2

\* C22: new BigDate(t.toISOString()) has the millisecond base and the
\* nanosecond remainder of t, for every timestamp t.
C22_RoundTrip ==
  \A i \in Idx : events[i].type = "now" =>
    BigDate_initString(events[i].out.iso)
      = [ms |-> events[i].out.ms, frac |-> events[i].out.frac]

\* A timestamp with the uncarried remainder at the last millisecond of a
\* second: its text reads one second early
C22_Witness ==
  \E i \in Idx :
    /\ events[i].type = "now"
    /\ events[i].out.frac = NsPerMs
    /\ events[i].out.ms % MsPerSec = MsPerSec - 1
    /\ BigDate_initString(events[i].out.iso).ms = events[i].out.ms + 1 - MsPerSec
    /\ BigDate_initString(events[i].out.iso).frac = 0

\* The "recstart" event of the call that made the recorder rec
StartOf(rec) ==
  events[CHOOSE i \in Idx : events[i].type = "recstart" /\ events[i].logger = rec]

\* C23: when recordLogs or recordAsyncLogs has returned, thrown or
\* rejected, the mapping of the root logger is the mapping it had before
\* the call, whether fn completed or failed.
C23_MappingRestored ==
  \A i \in Idx : events[i].type = "recend" =>
    events[i].m = StartOf(events[i].logger).m

\* A recording whose fn failed after the recorder was installed
C23_Witness ==
  \E i \in Idx :
    /\ events[i].type = "recend"
    /\ events[i].out \in {"thrown", "rejected"}
    /\ StartOf(events[i].logger).out = "valid"
    /\ StartOf(events[i].logger).arg2.throws
    /\ events[i].m = StartOf(events[i].logger).m
    /\ events[i].m # <<events[i].logger>>

\* The index of the "recend" event of the call that began at event i
RecEndOf(i) ==
  CHOOSE j \in Idx : events[j].type = "recend" /\ events[j].logger = events[i].logger

\* Two calls of recordAsyncLogs, begun at events i and j, that have both
\* completed and of which the second began while the first was waiting
Overlapped(i, j) ==
  /\ i < j
  /\ events[i].type = "recstart" /\ events[i].info = "async"
  /\ events[j].type = "recstart" /\ events[j].info = "async"
  /\ RecEnded(events[i].logger) /\ RecEnded(events[j].logger)
  /\ j < RecEndOf(i)

\* C28: when two calls of recordAsyncLogs on one root logger overlap, in
\* any order of their completions, the mapping of the root logger once
\* both have completed is the mapping installed before the first began.
C28_OverlapRestored ==
  \A i, j \in Idx : Overlapped(i, j) =>
    LET last == IF RecEndOf(i) > RecEndOf(j) THEN RecEndOf(i) ELSE RecEndOf(j)
    IN events[last].m = events[i].m

\* The first call completes before the second: the root logger is left
\* with the recorder of the first call
C28_Witness ==
  \E i, j \in Idx :
    /\ Overlapped(i, j)
    /\ RecEndOf(i) < RecEndOf(j)
    /\ PendingRecordings = {}
    /\ children = <<events[i].logger>>
    /\ children # events[i].m

\* The text of one component of a message
ComponentText(c) == IF c.type = "String" THEN c.v ELSE ToString(c.v)

\* The texts of the components, one after the other
RECURSIVE Concatenated(_)
Concatenated(cs) ==
  IF cs = <<>> THEN "" ELSE ComponentText(Head(cs)) \o Concatenated(Tail(cs))

\* C24: messageFormatJson maps a message to a record whose `message` is the
\* components concatenated into one string, whose `level` is the level of
\* the message and whose `timestamp` is the ISO text of its timestamp;
\* { message: ['Hello ', 42, ' World'], level: 'warn' } yields
\* { message: 'Hello 42 World', level: 'warn', timestamp: <ISO text> }.
C24_JsonFormat ==
  \A i \in Idx : events[i].type = "format" =>
    LET in == events[i].m
        out == events[i].out
    IN /\ DOMAIN out = DOMAIN in \cup {"message"}
       /\ out.message = (IF HasKey(in, "message") THEN Concatenated(in.message) ELSE "")
       /\ out.level = in.level
       /\ out.timestamp = toISOString(in.timestamp.ms, in.timestamp.frac)
       /\ (HasKey(in, "message") /\ in.message = <<Str("Hello "), Num(42), Str(" World")>>)
            => out.message = "Hello 42 World"

C24_Witness ==
  \E i \in Idx :
    /\ events[i].type = "format"
    /\ events[i].m.level = "warn"
    /\ HasKey(events[i].m, "message")
    /\ events[i].m.message = <<Str("Hello "), Num(42), Str(" World")>>
    /\ events[i].out.message = "Hello 42 World"
    /\ events[i].out.level = "warn"
    /\ events[i].out.timestamp.decimals = 999999999

\* C25: the filter of the Interface is called with the normalized message
\* without the Interface's defaultFields, and what is forwarded is what the
\* filter returned plus the defaultFields it lacks.
C25_IfaceDefaultsAfterFilter ==
  \A i \in Idx :
    (events[i].type = "forward" /\ events[i].info = "iface") =>
      LET e == events[i]
          f == applyFilter(iface.filter, makeLogMessage(e.m))
      IN /\ e.arg2 = makeLogMessage(e.m)
         /\ f.tag = "value"
         /\ e.out = Overlay(iface.defaultFields, f.v)

\* A forwarded message whose filter was called with the defaultFields in
\* its argument
C25_Witness ==
  \E i \in Idx :
    /\ events[i].type = "forward" /\ events[i].info = "iface"
    /\ iface.defaultFields = [foo |-> "42"]
    /\ ~HasKey(events[i].m, "foo")
    /\ HasKey(events[i].arg2, "foo")
    /\ events[i].arg2.foo = "42"

\* The message of call event c reaches the root logger at level lv
ReachesRootAt(c, lv) ==
  \E i \in Idx :
    /\ events[i].type = "forward" /\ events[i].logger = "root"
    /\ events[i].call = c.call /\ events[i].depth = 0
    /\ events[i].out.level = lv
    /\ events[i].out.message = intersperse(c.arg2.message, " ")

\* C26: the global log(...msg) does what SimpleInterface.log(...msg) does:
\* for any arguments the message reaches the root logger at level info.
C26_GlobalLogIsInfo ==
  \A i \in Idx :
    (events[i].type = "call" /\ events[i].info = "global.log") =>
      ReachesRootAt(events[i], "info")

\* A call of the global log whose message is not forwarded at all: the
\* Interface fails on the level 'log'
C26_Witness ==
  \E i, j \in Idx :
    /\ events[i].type = "call" /\ events[i].info = "global.log"
    /\ events[i].arg2.level = "log"
    /\ events[j].type = "fail" /\ events[j].call = events[i].call /\ events[j].depth = 0
    /\ events[j].info = "Error: Not a valid log level"
    /\ \A k \in Idx : ~(events[k].type = "forward" /\ events[k].call = events[i].call
                         /\ events[k].depth = 0)

\* C27: when the emission of the report itself fails (the logger it is sent
\* to throws from log(), or is no Logger at all), the failure stays inside
\* __handleLoggingExceptions: it does not reach the caller of log() and it
\* does not leave as a promise rejection that nothing handles.
C27_ReportFailureContained ==
  \A i \in Idx :
    (events[i].type = "diag" /\ kindOf[events[i].logger] \in {"null", "thrower"}) =>
      /\ ~thrown
      /\ unhandled = 0
      /\ \A j \in Idx : events[j].type # "unhandled"

\* The report about a child that is null is sent to that child: the call
\* throws in the catch block and the promise of the wrapper is rejected
C27_Witness ==
  \E i, j \in Idx :
    /\ events[i].type = "diag" /\ events[i].logger = "bad" /\ kindOf["bad"] = "null"
    /\ events[j].type = "unhandled" /\ events[j].logger = "bad"
    /\ events[j].call = events[i].call /\ events[j].tick = events[i].tick
    /\ i < j
    /\ events[j].info = "TypeError: Cannot read properties of null"
    /\ unhandled >= 1
    /\ ~thrown

\* Nothing is left to run
WinstonQuiet ==
  micro = <<>> /\ immediates = <<>> /\ PendingAwaits = {} /\ PendingEmits = {}

\* C29: for every message given to WinstonTransportInterface.log, callback
\* is called exactly once in the end, also when the filter drops the
\* message and when the filter or the delivery fails.
C29_CallbackOnce ==
  \A i \in Idx : events[i].type = "winston" =>
    /\ Cardinality(EventsOf(events[i].call, "callback")) <= 1
    /\ WinstonQuiet => Cardinality(EventsOf(events[i].call, "callback")) = 1

\* The filter dropped a message, nothing is left to run, and callback was
\* not called
C29_Witness ==
  /\ WinstonQuiet
  /\ iface.filter = "keep"
  /\ \E i \in Idx :
       /\ events[i].type = "winston"
       /\ ~HasKey(events[i].m, "keep")
       /\ EventsOf(events[i].call, "drop") # {}
       /\ EventsOf(events[i].call, "logged") # {}
       /\ EventsOf(events[i].call, "callback") = {}

\* The waits of the write of the message that event e belongs to, in order
WaitsOf(e) ==
  LET rs == SelectSeq(events, LAMBDA x : /\ x.type = "retry" /\ x.logger = e.logger
                                         /\ x.call = e.call /\ x.depth = e.depth)
  IN [k \in 1..Len(rs) |-> rs[k].info]

\* The events that end the write of the message that event e belongs to
EndsOf(e) ==
  { j \in Idx : /\ events[j].logger = e.logger /\ events[j].call = e.call
                /\ events[j].depth = e.depth
                /\ \/ events[j].type = "write"
                   \/ events[j].type = "fail" /\ events[j].info = "Error: request failed" }

\* C30: the write of the Coralogix sink makes at most four attempts for a
\* message and stops at the first that succeeds; it waits 5, 10 and 15 ms
\* after the first, second and third failed attempt, and the failure of
\* the fourth attempt goes to __handleLoggingExceptions without a retry.
C30_FourAttempts ==
  \A i \in Idx :
    (kindOf[events[i].logger] = "coralogix" /\ events[i].type \in {"retry", "write", "fail"}) =>
      LET e == events[i]
          w == WaitsOf(e)
      IN /\ Len(w) <= 3
         /\ w = SubSeq(<<5, 10, 15>>, 1, Len(w))
         /\ Cardinality(EndsOf(e)) <= 1
         /\ \A j \in EndsOf(e) :
              /\ \A k \in Idx : (events[k].type = "retry" /\ events[k].logger = e.logger
                                   /\ events[k].call = e.call /\ events[k].depth = e.depth)
                                  => k < j
              /\ events[j].type = "write" => events[j].info = Len(w) + 1
              /\ events[j].type = "fail" => Len(w) = 3

\* Four attempts failed: three waits, then the failure is in the hands of
\* the wrapper
C30_Witness ==
  \E i \in Idx :
    /\ events[i].type = "fail" /\ events[i].logger = "cora"
    /\ events[i].info = "Error: request failed"
    /\ WaitsOf(events[i]) = <<5, 10, 15>>
    /\ \A j \in Idx : ~(events[j].type = "write" /\ events[j].logger = "cora"
                         /\ events[j].call = events[i].call
                         /\ events[j].depth = events[i].depth)

====
